---- MODULE Spec2Model ----
(***************************************************************************)
(* FlatValueMap / LightFlatValueMap (namespace cof): a vector-like         *)
(* container indexed by sparse handles.                                    *)
(*                                                                         *)
(* A std::unordered_map is a TLA+ function whose DOMAIN is the key set, a  *)
(* std::vector is a sequence (C++ index i is TLA+ index i + 1), and an     *)
(* iterator into an unordered_map is the key of the node it points to      *)
(* (EndIt for end() and for a default-constructed iterator).               *)
(***************************************************************************)
EXTENDS Integers, Sequences, FiniteSets, TLC

\* ---------------------------------------------------------------------
\* Bounds of the model
\* ---------------------------------------------------------------------

\* Largest value the static id counter may reach (number of inserts per
\* container type over the whole run).
MaxInserts == 4

\* Largest id of the handles that are compared with each other.
MaxHandleId == 10

\* The width in bits of the id counter in the program that lets the
\* counter wrap (uint32_t in the source: 32), and the number of inserts of
\* that program on one container: more than 2^IdWidth.
IdWidth == 2

MaxWrapInserts == 5

\* The element values a caller inserts.
Values == {"Dog", "Cat"}

\* ---------------------------------------------------------------------
\* Containers of the standard library
\* ---------------------------------------------------------------------

\* end() of an unordered_map, and the value of a default-constructed iterator.
EndIt == -1

EmptyMap == [k \in {} |-> 0]

\* unordered_map::find: the iterator to the node with key k, or end().
MapFind(m, k) == IF k \in DOMAIN m THEN k ELSE EndIt

\* unordered_map::operator[] in place of find / at: a key that is not
\* there is inserted with a value-initialised mapped value (0).
MapLookup_Subscript(m, k) ==
    IF k \in DOMAIN m THEN m
    ELSE [x \in DOMAIN m \cup {k} |-> IF x = k THEN 0 ELSE m[x]]

\* What unordered_map::find(k) and unordered_map::at(k) leave of the map:
\* both look the key up and insert nothing.
MapLookup(m, k) == m

\* unordered_map::emplace: inserts (k, v) unless the key is already there.
MapEmplace(m, k, v) ==
    IF k \in DOMAIN m THEN m
    ELSE [x \in DOMAIN m \cup {k} |-> IF x = k THEN v ELSE m[x]]

\* unordered_map::erase(iterator)
MapErase(m, it) == [x \in DOMAIN m \ {it} |-> m[x]]

\* vector::pop_back
PopBack(s) == SubSeq(s, 1, Len(s) - 1)

\* std::swap of the elements at C++ indices i and j of a vector
SwapElements(s, i, j) ==
    [s EXCEPT ![i + 1] = s[j + 1], ![j + 1] = s[i + 1]]

\* vector_in_range: index >= 0 && index < vector.size()
vector_in_range(vector, index) == index >= 0 /\ index < Len(vector)

\* Result of a call: the container it leaves behind and how the call ended
\* ("ok", "assert" for a failed assert(), "throw" for std::out_of_range,
\* "ub" for undefined behaviour such as dereferencing end()).
Result(c, st) == [c |-> c, st |-> st]

\* The value a failed lookup hands back (no element).
NoValue == "<none>"

\* ---------------------------------------------------------------------
\* cof::FvmHandle and cof::LfvmHandle
\* ---------------------------------------------------------------------

\* A handle: struct FvmHandle { uint32_t id; }
FvmHandle(id) == [ id |-> id ]

\* struct LfvmHandle { uint32_t id; }
LfvmHandle(id) == [ id |-> id ]

\* The six comparison operators with <= written as <.
FvmHandleCompare_LessEqualStrict(lhs, rhs) ==
    [ eq |-> lhs.id = rhs.id,
      ne |-> lhs.id # rhs.id,
      lt |-> lhs.id < rhs.id,
      le |-> lhs.id < rhs.id,
      gt |-> lhs.id > rhs.id,
      ge |-> lhs.id >= rhs.id ]

\* The six friend operators of FvmHandle, each a comparison of the ids
FvmHandleCompare(lhs, rhs) ==
    [ eq |-> lhs.id = rhs.id,
      ne |-> lhs.id # rhs.id,
      lt |-> lhs.id < rhs.id,
      le |-> lhs.id <= rhs.id,
      gt |-> lhs.id > rhs.id,
      ge |-> lhs.id >= rhs.id ]

\* The six friend operators of LfvmHandle
LfvmHandleCompare(lhs, rhs) ==
    [ eq |-> lhs.id = rhs.id,
      ne |-> lhs.id # rhs.id,
      lt |-> lhs.id < rhs.id,
      le |-> lhs.id <= rhs.id,
      gt |-> lhs.id > rhs.id,
      ge |-> lhs.id >= rhs.id ]

\* ---------------------------------------------------------------------
\* cof::FlatValueMap
\* ---------------------------------------------------------------------

\* FlatValueMap() = default: both maps and the vector empty, the cached
\* iterators default-constructed, the flag false.
FvmEmpty ==
    [ sparse_to_dense |-> EmptyMap,
      dense_to_sparse |-> EmptyMap,
      dense_vector |-> << >>,
      back_element_sparse_to_dense_iterator |-> EndIt,
      back_element_dense_to_sparse_iterator |-> EndIt,
      back_element_cached_iterator_valid |-> FALSE ]

FvmSize(c) == Len(c.dense_vector)

FvmIsEmpty(c) == c.dense_vector = << >>

FvmContains(c, handle) == MapFind(c.sparse_to_dense, handle) # EndIt

\* FvmAt without its first assertion: sparse_to_dense.at(handle) throws
\* std::out_of_range for a handle the map does not hold.
FvmAt_NoAssert(c, handle) ==
    IF MapFind(c.sparse_to_dense, handle) = EndIt
    THEN [st |-> "throw", value |-> NoValue]
    ELSE LET element_index == c.sparse_to_dense[handle]
         IN  IF ~ vector_in_range(c.dense_vector, element_index)
             THEN [st |-> "assert", value |-> NoValue]
             ELSE [st |-> "ok", value |-> c.dense_vector[element_index + 1]]

\* operator[]: the element of the handle, behind two assertions.
FvmAt(c, handle) ==
    IF MapFind(c.sparse_to_dense, handle) = EndIt
    THEN [st |-> "assert", value |-> NoValue]
    ELSE LET element_index == c.sparse_to_dense[handle]
         IN  IF ~ vector_in_range(c.dense_vector, element_index)
             THEN [st |-> "assert", value |-> NoValue]
             ELSE [st |-> "ok", value |-> c.dense_vector[element_index + 1]]

\* An iterator into dense_vector is the C++ index it points to; begin() is
\* index 0 and end() is index size().
FvmBegin(c) == 0

FvmEnd(c) == Len(c.dense_vector)

\* for (it = first; it != last; ++it) visit(*it) over a vector: the
\* elements visited, in order.  The walk ends where *it would leave the vector.
RECURSIVE Traverse(_, _, _)
Traverse(vector, it, last) ==
    IF it = last \/ ~ vector_in_range(vector, it)
    THEN << >>
    ELSE << vector[it + 1] >> \o Traverse(vector, it + 1, last)

\* Iterating a FlatValueMap from begin() to end()
FvmIterate(c) == Traverse(c.dense_vector, FvmBegin(c), FvmEnd(c))

\* A reverse iterator of a vector is the C++ index of the element it
\* refers to: vector.crbegin() refers to the last element, index size()-1
\* (and -1, which is vector.crend(), when the vector is empty).
VectorCRBegin(vector) == Len(vector) - 1

\* crbegin(): return dense_vector.crbegin();
FvmCRBegin(c) == VectorCRBegin(c.dense_vector)

\* crend(): return dense_vector.crbegin();
FvmCREnd(c) == VectorCRBegin(c.dense_vector)

\* for (it = first; it != last; ++it) visit(*it) with reverse iterators of
\* a vector: ++it moves to the element before.
RECURSIVE ReverseTraverse(_, _, _)
ReverseTraverse(vector, it, last) ==
    IF it = last \/ ~ vector_in_range(vector, it)
    THEN << >>
    ELSE << vector[it + 1] >> \o ReverseTraverse(vector, it - 1, last)

\* Traversing a FlatValueMap from crbegin() to crend()
FvmReverseIterate(c) == ReverseTraverse(c.dense_vector, FvmCRBegin(c), FvmCREnd(c))

\* find that hands back begin() for a handle it does not know.
FvmFind_NotFoundBegin(c, handle) ==
    IF handle \in DOMAIN c.sparse_to_dense
    THEN [st |-> "ok", it |-> c.sparse_to_dense[handle]]
    ELSE [st |-> "ok", it |-> 0]

\* find(handle): the iterator to the element in dense_vector, end() if the
\* handle is not in sparse_to_dense.
FvmFind(c, handle) ==
    LET sparse_to_dense_it == MapFind(c.sparse_to_dense, handle)
    IN  IF sparse_to_dense_it # EndIt
        THEN LET element_index == c.sparse_to_dense[sparse_to_dense_it]
             IN  IF ~ vector_in_range(c.dense_vector, element_index)
                 THEN [st |-> "assert", it |-> FvmEnd(c)]
                 ELSE [st |-> "ok", it |-> FvmBegin(c) + element_index]
        ELSE [st |-> "ok", it |-> FvmEnd(c)]

\* internalIdCounter++ in place of ++internalIdCounter: the id is the old value.
PreIncrement_PostIncrement(counter) == counter

\* ++internalIdCounter on the static uint32_t counter.  The guards of the
\* insert actions keep the counter at or below MaxInserts, far from 2^32.
PreIncrement(counter) == counter + 1

\* ++internalIdCounter on an unsigned counter of IdWidth bits: the
\* increment is modulo 2^IdWidth, after the greatest value comes 0.
PreIncrementWrap(counter) == (counter + 1) % (2 ^ IdWidth)

\* unordered_map_emplace_and_return_iterator: emplace, assert that the key
\* was new, return the iterator to the new node.
EmplaceSucceeds(m, k) == k \notin DOMAIN m

\* FvmPushBack that sets the flag and leaves the two cached iterators as
\* they were.
FvmPushBack_StaleCache(c, element_id, t) ==
    LET element_index == Len(c.dense_vector)
    IN  Result(
          [c EXCEPT
             !.dense_vector = Append(c.dense_vector, t),
             !.sparse_to_dense = MapEmplace(c.sparse_to_dense, element_id, element_index),
             !.dense_to_sparse = MapEmplace(c.dense_to_sparse, element_index, element_id),
             !.back_element_cached_iterator_valid = TRUE],
          "ok")

\* FvmPushBack that reads element_index after the element was pushed.
FvmPushBack_IndexAfterPush(c, element_id, t) ==
    LET element_index == Len(c.dense_vector) + 1
    IN  Result(
          [c EXCEPT
             !.dense_vector = Append(c.dense_vector, t),
             !.sparse_to_dense = MapEmplace(c.sparse_to_dense, element_id, element_index),
             !.dense_to_sparse = MapEmplace(c.dense_to_sparse, element_index, element_id),
             !.back_element_sparse_to_dense_iterator = element_id,
             !.back_element_dense_to_sparse_iterator = element_index,
             !.back_element_cached_iterator_valid = TRUE],
          "ok")

\* push_back(const Value&), push_back(Value&&) and emplace_back: the three
\* bodies are the same statement for statement.  element_id is the value
\* of ++internalIdCounter.
FvmPushBack(c, element_id, t) ==
    LET element_index == Len(c.dense_vector)
        pushed == [c EXCEPT !.dense_vector = Append(c.dense_vector, t)]
    IN  IF ~ EmplaceSucceeds(c.sparse_to_dense, element_id)
        THEN Result(pushed, "assert")
        ELSE LET withStd ==
                   [pushed EXCEPT !.sparse_to_dense =
                        MapEmplace(c.sparse_to_dense, element_id, element_index)]
             IN  IF ~ EmplaceSucceeds(c.dense_to_sparse, element_index)
                 THEN Result(withStd, "assert")
                 ELSE Result(
                        [withStd EXCEPT
                           !.dense_to_sparse =
                               MapEmplace(c.dense_to_sparse, element_index, element_id),
                           !.back_element_sparse_to_dense_iterator = element_id,
                           !.back_element_dense_to_sparse_iterator = element_index,
                           !.back_element_cached_iterator_valid = TRUE],
                        "ok")

\* An erase that closes the gap by shifting every later element one
\* position down instead of swapping with the back element.
FvmEraseSwap_ShiftsElements(c, removing_sparse_to_dense_it, removed_element_index, back_dts_it, back_std_it) ==
    LET kept == DOMAIN c.sparse_to_dense \ {removing_sparse_to_dense_it}
        std1 == [h \in kept |->
                    IF c.sparse_to_dense[h] > removed_element_index
                    THEN c.sparse_to_dense[h] - 1
                    ELSE c.sparse_to_dense[h]]
    IN  Result(
          [c EXCEPT
             !.sparse_to_dense = std1,
             !.dense_to_sparse =
                 [i \in 0 .. Len(c.dense_vector) - 2 |->
                     CHOOSE h \in kept : std1[h] = i],
             !.dense_vector =
                 [i \in 1 .. Len(c.dense_vector) - 1 |->
                     IF i <= removed_element_index
                     THEN c.dense_vector[i] ELSE c.dense_vector[i + 1]],
             !.back_element_cached_iterator_valid = FALSE],
          "ok")

\* FvmEraseSwap without the fix-up of the moved element's sparse entry.
FvmEraseSwap_NoSparseFixup(c, removing_sparse_to_dense_it, removed_element_index, back_dts_it, back_std_it) ==
    Result(
      [c EXCEPT
         !.sparse_to_dense = MapErase(c.sparse_to_dense, removing_sparse_to_dense_it),
         !.dense_to_sparse =
             MapErase([c.dense_to_sparse EXCEPT ![removed_element_index] = back_std_it],
                      back_dts_it),
         !.dense_vector = PopBack(SwapElements(c.dense_vector, removed_element_index,
                                               Len(c.dense_vector) - 1)),
         !.back_element_cached_iterator_valid = FALSE],
      "ok")

\* FvmEraseSwap without the fix-up of the reverse entry of the freed position.
FvmEraseSwap_NoReverseFixup(c, removing_sparse_to_dense_it, removed_element_index, back_dts_it, back_std_it) ==
    Result(
      [c EXCEPT
         !.sparse_to_dense =
             MapErase([c.sparse_to_dense EXCEPT ![back_std_it] = removed_element_index],
                      removing_sparse_to_dense_it),
         !.dense_to_sparse = MapErase(c.dense_to_sparse, back_dts_it),
         !.dense_vector = PopBack(SwapElements(c.dense_vector, removed_element_index,
                                               Len(c.dense_vector) - 1)),
         !.back_element_cached_iterator_valid = FALSE],
      "ok")

\* FvmEraseSwap without the std::swap of the two elements.
FvmEraseSwap_NoSwap(c, removing_sparse_to_dense_it, removed_element_index, back_dts_it, back_std_it) ==
    Result(
      [c EXCEPT
         !.sparse_to_dense =
             MapErase([c.sparse_to_dense EXCEPT ![back_std_it] = removed_element_index],
                      removing_sparse_to_dense_it),
         !.dense_to_sparse =
             MapErase([c.dense_to_sparse EXCEPT ![removed_element_index] = back_std_it],
                      back_dts_it),
         !.dense_vector = PopBack(c.dense_vector),
         !.back_element_cached_iterator_valid = FALSE],
      "ok")

\* The swap branch of erase(HandleType), entered with the two iterators of
\* the back element already chosen.
FvmEraseSwap(c, removing_sparse_to_dense_it, removed_element_index, back_dts_it, back_std_it) ==
    IF ~ vector_in_range(c.dense_vector, removed_element_index)
    THEN Result(c, "assert")
    ELSE IF back_std_it \notin DOMAIN c.sparse_to_dense
    THEN Result(c, "ub")
    ELSE
      LET swapped == SwapElements(c.dense_vector, removed_element_index,
                                  Len(c.dense_vector) - 1)
          std1 == [c.sparse_to_dense EXCEPT ![back_std_it] = removed_element_index]
      IN  IF removed_element_index \notin DOMAIN c.dense_to_sparse
          THEN Result([c EXCEPT !.dense_vector = swapped,
                                !.sparse_to_dense = std1], "throw")
          ELSE IF back_dts_it \notin DOMAIN c.dense_to_sparse
          THEN Result(c, "ub")
          ELSE
            LET dts1 == [c.dense_to_sparse EXCEPT
                            ![removed_element_index] = back_std_it]
            IN  Result(
                  [c EXCEPT
                     !.sparse_to_dense = MapErase(std1, removing_sparse_to_dense_it),
                     !.dense_to_sparse = MapErase(dts1, back_dts_it),
                     !.dense_vector = PopBack(swapped),
                     !.back_element_cached_iterator_valid = FALSE],
                  "ok")

\* FvmEraseBack without the last statement of erase, which marks the
\* cache stale.
FvmEraseBack_KeepsCacheFlag(c, removing_sparse_to_dense_it, back_dts_it) ==
    IF back_dts_it \notin DOMAIN c.dense_to_sparse
    THEN Result(c, "ub")
    ELSE Result(
           [c EXCEPT
              !.sparse_to_dense = MapErase(c.sparse_to_dense, removing_sparse_to_dense_it),
              !.dense_to_sparse = MapErase(c.dense_to_sparse, back_dts_it),
              !.dense_vector = PopBack(c.dense_vector)],
           "ok")

\* FvmEraseBack without dense_vector.pop_back().
FvmEraseBack_NoPopBack(c, removing_sparse_to_dense_it, back_dts_it) ==
    Result(
      [c EXCEPT
         !.sparse_to_dense = MapErase(c.sparse_to_dense, removing_sparse_to_dense_it),
         !.dense_to_sparse = MapErase(c.dense_to_sparse, back_dts_it),
         !.back_element_cached_iterator_valid = FALSE],
      "ok")

\* FvmEraseBack that leaves the erased handle's sparse entry in the map.
FvmEraseBack_KeepsSparseEntry(c, removing_sparse_to_dense_it, back_dts_it) ==
    Result(
      [c EXCEPT
         !.dense_to_sparse = MapErase(c.dense_to_sparse, back_dts_it),
         !.dense_vector = PopBack(c.dense_vector),
         !.back_element_cached_iterator_valid = FALSE],
      "ok")

\* FvmEraseBack that leaves the entry of the last position in
\* dense_to_sparse.
FvmEraseBack_KeepsReverseEntry(c, removing_sparse_to_dense_it, back_dts_it) ==
    Result(
      [c EXCEPT
         !.sparse_to_dense = MapErase(c.sparse_to_dense, removing_sparse_to_dense_it),
         !.dense_vector = PopBack(c.dense_vector),
         !.back_element_cached_iterator_valid = FALSE],
      "ok")

\* The other branch of erase(HandleType): the element is the back element.
FvmEraseBack(c, removing_sparse_to_dense_it, back_dts_it) ==
    IF back_dts_it \notin DOMAIN c.dense_to_sparse
    THEN Result(c, "ub")
    ELSE Result(
           [c EXCEPT
              !.sparse_to_dense = MapErase(c.sparse_to_dense, removing_sparse_to_dense_it),
              !.dense_to_sparse = MapErase(c.dense_to_sparse, back_dts_it),
              !.dense_vector = PopBack(c.dense_vector),
              !.back_element_cached_iterator_valid = FALSE],
           "ok")

\* erase(HandleType handleToDelete)
FvmErase(c, handleToDelete) ==
    LET removing_sparse_to_dense_it == MapFind(c.sparse_to_dense, handleToDelete)
    IN  IF removing_sparse_to_dense_it = EndIt
        THEN Result(c, "assert")
        ELSE
          LET removed_element_index == c.sparse_to_dense[removing_sparse_to_dense_it]
              back_index == Len(c.dense_vector) - 1
              back_dts_it ==
                  IF c.back_element_cached_iterator_valid
                  THEN c.back_element_dense_to_sparse_iterator
                  ELSE MapFind(c.dense_to_sparse, back_index)
          IN  IF removed_element_index # back_index
              THEN IF c.back_element_cached_iterator_valid
                   THEN FvmEraseSwap(c, removing_sparse_to_dense_it,
                                     removed_element_index, back_dts_it,
                                     c.back_element_sparse_to_dense_iterator)
                   ELSE IF back_dts_it = EndIt
                        THEN Result(c, "ub")
                        ELSE FvmEraseSwap(c, removing_sparse_to_dense_it,
                                          removed_element_index, back_dts_it,
                                          MapFind(c.sparse_to_dense,
                                                  c.dense_to_sparse[back_dts_it]))
              ELSE FvmEraseBack(c, removing_sparse_to_dense_it, back_dts_it)

\* erase(position) that takes the handle of the back element.
FvmErasePosition_Back(c, element_index) ==
    IF MapFind(c.dense_to_sparse, element_index) = EndIt
    THEN Result(c, "assert")
    ELSE FvmErase(c, c.dense_to_sparse[Len(c.dense_vector) - 1])

\* erase(const_iterator position), position == begin() + element_index
FvmErasePosition(c, element_index) ==
    IF MapFind(c.dense_to_sparse, element_index) = EndIt
    THEN Result(c, "assert")
    ELSE FvmErase(c, c.dense_to_sparse[element_index])

\* The second loop of erase(first, last): erase every snapshotted handle in
\* turn; a call that does not return ends the loop.
RECURSIVE FvmEraseEach(_, _)
FvmEraseEach(c, handles) ==
    IF handles = << >>
    THEN Result(c, "ok")
    ELSE LET r == FvmErase(c, Head(handles))
         IN  IF r.st # "ok" THEN r ELSE FvmEraseEach(r.c, Tail(handles))

\* The loop of a range erase that takes no snapshot: it reads the handle of
\* position offset + i only when it gets to it.
RECURSIVE FvmEraseByPosition(_, _, _, _)
FvmEraseByPosition(c, offset, i, count) ==
    IF i >= count
    THEN Result(c, "ok")
    ELSE LET r == FvmErasePosition(c, offset + i)
         IN  IF r.st # "ok" THEN r ELSE FvmEraseByPosition(r.c, offset, i + 1, count)

\* erase(first, last) without the snapshot of the handles.
FvmEraseRange_NoSnapshot(c, offset, count) == FvmEraseByPosition(c, offset, 0, count)

\* A first loop that looks up dense_to_sparse.find(i), without the offset.
FvmSnapshot_IgnoresOffset(c, offset, count) ==
    IF \E i \in 0 .. count - 1 : MapFind(c.dense_to_sparse, i) = EndIt
    THEN [st |-> "assert", handles |-> << >>]
    ELSE [st |-> "ok",
          handles |-> [i \in 1 .. count |-> c.dense_to_sparse[i - 1]]]

\* The first loop of erase(first, last): handles[i] is the handle that
\* dense_to_sparse has for position offset + i; every find is behind an
\* assertion.
FvmSnapshot(c, offset, count) ==
    IF \E i \in 0 .. count - 1 :
           MapFind(c.dense_to_sparse, offset + i) = EndIt
    THEN [st |-> "assert", handles |-> << >>]
    ELSE [st |-> "ok",
          handles |-> [i \in 1 .. count |-> c.dense_to_sparse[offset + i - 1]]]

\* erase(const_iterator first, const_iterator last) with
\* first == begin() + offset and last == begin() + offset + count
FvmEraseRange(c, offset, count) ==
    IF FvmSnapshot(c, offset, count).st # "ok"
    THEN Result(c, "assert")
    ELSE FvmEraseEach(c, FvmSnapshot(c, offset, count).handles)

\* A clear() that forgets the reverse index.
FvmClear_KeepsReverseIndex(c) ==
    [c EXCEPT !.dense_vector = << >>, !.sparse_to_dense = EmptyMap]

\* A clear() that forgets the vector.
FvmClear_KeepsVector(c) ==
    [c EXCEPT !.sparse_to_dense = EmptyMap, !.dense_to_sparse = EmptyMap]

\* clear(): the vector and both maps; the cache fields are not touched.
FvmClear(c) ==
    [c EXCEPT !.dense_vector = << >>,
              !.sparse_to_dense = EmptyMap,
              !.dense_to_sparse = EmptyMap]

\* A clear() that starts the ids over.
FvmClearIdCounter_Reset(counter) == 0

\* clear() has no statement on the static internalIdCounter: the counter
\* after clear() is the counter before it.
FvmClearIdCounter(counter) == counter

\* A move construction after which the two cached iterators of the new
\* object refer to no node of its maps.
FvmMoveConstruct_DanglingCache(c) ==
    [ sparse_to_dense |-> c.sparse_to_dense,
      dense_to_sparse |-> c.dense_to_sparse,
      dense_vector |-> c.dense_vector,
      back_element_sparse_to_dense_iterator |-> EndIt,
      back_element_dense_to_sparse_iterator |-> EndIt,
      back_element_cached_iterator_valid |-> c.back_element_cached_iterator_valid ]

\* FlatValueMap fvm2 = std::move(c): the class declares no move
\* constructor, the implicit one moves member by member.  The new
\* object's maps take over the nodes of c's maps and its vector takes
\* over the elements; iterators into a moved unordered_map stay valid and
\* refer to the same nodes, which the new object's maps now own, so the
\* copied cached iterators name entries of the new maps; the flag is
\* copied.  The result is the new object.
FvmMoveConstruct(c) ==
    [ sparse_to_dense |-> c.sparse_to_dense,
      dense_to_sparse |-> c.dense_to_sparse,
      dense_vector |-> c.dense_vector,
      back_element_sparse_to_dense_iterator |-> c.back_element_sparse_to_dense_iterator,
      back_element_dense_to_sparse_iterator |-> c.back_element_dense_to_sparse_iterator,
      back_element_cached_iterator_valid |-> c.back_element_cached_iterator_valid ]

\* FlatValueMap b = a: the class declares no copy constructor, the
\* implicit one copies member by member.  The new object's maps and
\* vector are copies with nodes and elements of their own; the two cached
\* iterators and the flag are copied as they are, so the cached iterators
\* of the new object still refer to the nodes of a's maps (an iterator is
\* written here as the key of its node: the copied iterators have the keys
\* they had, in a's maps).  The result is the new object.
FvmCopyConstruct(a) ==
    [ sparse_to_dense |-> a.sparse_to_dense,
      dense_to_sparse |-> a.dense_to_sparse,
      dense_vector |-> a.dense_vector,
      back_element_sparse_to_dense_iterator |-> a.back_element_sparse_to_dense_iterator,
      back_element_dense_to_sparse_iterator |-> a.back_element_dense_to_sparse_iterator,
      back_element_cached_iterator_valid |-> a.back_element_cached_iterator_valid ]

\* An outcome of a call on a copy: the object copied from, the copy, and
\* how the call ended.
Result2(a, b, st) == [ a |-> a, b |-> b, st |-> st ]

\* b.dense_to_sparse.erase(back_dts_it) with an iterator of a's
\* dense_to_sparse: undefined behaviour.  The builds either fault while
\* they look for the node in b's bucket, or unlink the node from the list
\* it is in, which is a's, and destroy it; the call then goes on to
\* pop_back and the flag.
ForeignErase(a, b, back_dts_it) ==
    { Result2(a, b, "ub"),
      Result2([a EXCEPT !.dense_to_sparse = MapErase(a.dense_to_sparse, back_dts_it)],
              [b EXCEPT !.dense_vector = PopBack(b.dense_vector),
                        !.back_element_cached_iterator_valid = FALSE],
              "ub") }

\* erase(HandleType handleToDelete) on b, a copy of a on which no
\* push_back was called since the copy, so that its cached iterators are
\* the copied ones and refer to nodes of a's maps: the outcomes the call
\* can have.  With the flag false the call looks the back element up in
\* b's own maps; with the flag true it writes the new position through
\* the cached sparse_to_dense iterator, into a's node, and passes the
\* cached dense_to_sparse iterator to the erase of b's map.
FvmEraseCopy(a, b, handleToDelete) ==
    LET removing_sparse_to_dense_it == MapFind(b.sparse_to_dense, handleToDelete)
    IN  IF removing_sparse_to_dense_it = EndIt
        THEN { Result2(a, b, "assert") }
        ELSE IF ~ b.back_element_cached_iterator_valid
        THEN { Result2(a, FvmErase(b, handleToDelete).c, FvmErase(b, handleToDelete).st) }
        ELSE
          LET removed_element_index == b.sparse_to_dense[removing_sparse_to_dense_it]
              back_dts_it == b.back_element_dense_to_sparse_iterator
              back_std_it == b.back_element_sparse_to_dense_iterator
              erased == [b EXCEPT !.sparse_to_dense =
                            MapErase(b.sparse_to_dense, removing_sparse_to_dense_it)]
          IN  IF removed_element_index = Len(b.dense_vector) - 1
              THEN IF back_dts_it \notin DOMAIN a.dense_to_sparse
                   THEN { Result2(a, erased, "ub") }
                   ELSE ForeignErase(a, erased, back_dts_it)
              ELSE IF ~ vector_in_range(b.dense_vector, removed_element_index)
              THEN { Result2(a, b, "assert") }
              ELSE IF back_std_it \notin DOMAIN a.sparse_to_dense
              THEN { Result2(a, b, "ub") }
              ELSE
                LET swapped == SwapElements(b.dense_vector, removed_element_index,
                                            Len(b.dense_vector) - 1)
                    a1 == [a EXCEPT !.sparse_to_dense =
                              [a.sparse_to_dense EXCEPT
                                  ![back_std_it] = removed_element_index]]
                IN  IF removed_element_index \notin DOMAIN b.dense_to_sparse
                    THEN { Result2(a1, [b EXCEPT !.dense_vector = swapped], "throw") }
                    ELSE
                      LET b1 == [b EXCEPT
                                   !.dense_vector = swapped,
                                   !.dense_to_sparse =
                                       [b.dense_to_sparse EXCEPT
                                           ![removed_element_index] = back_std_it],
                                   !.sparse_to_dense =
                                       MapErase(b.sparse_to_dense,
                                                removing_sparse_to_dense_it)]
                      IN  IF back_dts_it \notin DOMAIN a.dense_to_sparse
                          THEN { Result2(a1, b1, "ub") }
                          ELSE ForeignErase(a1, b1, back_dts_it)

\* ---------------------------------------------------------------------
\* cof::LightFlatValueMap (built with assertions enabled)
\* ---------------------------------------------------------------------

LfvmEmpty == [ sparse_to_dense |-> EmptyMap, dense_vector |-> << >> ]

LfvmSize(c) == Len(c.dense_vector)

LfvmIsEmpty(c) == c.dense_vector = << >>

LfvmContains(c, handle) == MapFind(c.sparse_to_dense, handle) # EndIt

\* operator[]
LfvmAt(c, handle) ==
    LET std_it == MapFind(c.sparse_to_dense, handle)
    IN  IF std_it = EndIt
        THEN [st |-> "assert", value |-> NoValue]
        ELSE LET element_index == c.sparse_to_dense[std_it]
             IN  IF ~ vector_in_range(c.dense_vector, element_index)
                 THEN [st |-> "assert", value |-> NoValue]
                 ELSE [st |-> "ok", value |-> c.dense_vector[element_index + 1]]

LfvmBegin(c) == 0

LfvmEnd(c) == Len(c.dense_vector)

\* Iterating a LightFlatValueMap from begin() to end()
LfvmIterate(c) == Traverse(c.dense_vector, LfvmBegin(c), LfvmEnd(c))

\* LfvmPushBack that reads element_index after the element was pushed.
LfvmPushBack_IndexAfterPush(c, element_id, t) ==
    LET element_index == Len(c.dense_vector) + 1
    IN  Result([c EXCEPT !.dense_vector = Append(c.dense_vector, t),
                         !.sparse_to_dense =
                             MapEmplace(c.sparse_to_dense, element_id, element_index)],
               "ok")

\* push_back / emplace_back: a plain emplace, its result is not looked at.
LfvmPushBack(c, element_id, t) ==
    LET element_index == Len(c.dense_vector)
    IN  Result([c EXCEPT !.dense_vector = Append(c.dense_vector, t),
                         !.sparse_to_dense =
                             MapEmplace(c.sparse_to_dense, element_id, element_index)],
               "ok")

\* The enumerations of a set of keys: the sequences that list each key
\* once.
RECURSIVE Enumerations(_)
Enumerations(keys) ==
    IF keys = {}
    THEN { << >> }
    ELSE UNION { { << k >> \o rest : rest \in Enumerations(keys \ {k}) } : k \in keys }

\* The orders in which begin() .. end() can walk an unordered_map: every
\* enumeration of its keys (the hash order is unspecified).
IterationOrders(m) == Enumerations(DOMAIN m)

\* m.begin() of an unordered_map that is walked in an iteration order
MapBegin(m, order) == IF order = << >> THEN EndIt ELSE order[1]

\* ++it on an iterator of an unordered_map walked in an iteration order
MapNext(order, it) ==
    IF \E i \in 1 .. Len(order) - 1 : order[i] = it
    THEN order[(CHOOSE i \in 1 .. Len(order) - 1 : order[i] = it) + 1]
    ELSE EndIt

\* for (it = first; it != last; ++it) visit(*it) over an unordered_map:
\* the (key, value) pairs visited, in order.  The walk ends where *it
\* would be the dereference of end().
RECURSIVE MapTraverse(_, _, _, _)
MapTraverse(m, order, it, last) ==
    IF it = last \/ it \notin DOMAIN m
    THEN << >>
    ELSE << [first |-> it, second |-> m[it]] >>
           \o MapTraverse(m, order, MapNext(order, it), last)

\* handles_begin() and handles_end() of both classes: sparse_to_dense.begin()
\* and sparse_to_dense.end()
HandlesBegin(c, order) == MapBegin(c.sparse_to_dense, order)

HandlesEnd(c) == EndIt

\* The walk from handles_begin() to handles_end()
HandlesIterate(c, order) ==
    MapTraverse(c.sparse_to_dense, order, HandlesBegin(c, order), HandlesEnd(c))

\* The loop of dense_to_sparse(denseIndex) over the keys in iteration
\* order: the first entry whose value is denseIndex, end() if there is none.
RECURSIVE LfvmScan(_, _, _)
LfvmScan(m, order, denseIndex) ==
    IF order = << >> THEN EndIt
    ELSE IF denseIndex = m[Head(order)] THEN Head(order)
    ELSE LfvmScan(m, Tail(order), denseIndex)

\* dense_to_sparse that returns begin() whatever the index.
LfvmDenseToSparse_ReturnsBegin(c, denseIndex, order) ==
    IF order = << >> THEN EndIt ELSE Head(order)

\* dense_to_sparse(denseIndex)
LfvmDenseToSparse(c, denseIndex, order) == LfvmScan(c.sparse_to_dense, order, denseIndex)

\* LightFlatValueMap::erase that fixes the index up but leaves out the swap.
LfvmErase_NoSwap(c, handleToRemove, order) ==
    IF handleToRemove \notin DOMAIN c.sparse_to_dense
    THEN Result(c, "assert")
    ELSE
      LET element_index == c.sparse_to_dense[handleToRemove]
          last_element == Len(c.dense_vector) - 1
          std_last_element_it == LfvmScan(c.sparse_to_dense, order, last_element)
      IN  Result(
            [c EXCEPT
               !.dense_vector = PopBack(c.dense_vector),
               !.sparse_to_dense =
                   MapErase([c.sparse_to_dense EXCEPT
                                ![std_last_element_it] = element_index],
                            handleToRemove)],
            "ok")

\* LightFlatValueMap::erase that swaps and pops but does not write the
\* new position into the entry the scan returned.
LfvmErase_NoFixup(c, handleToRemove, order) ==
    IF handleToRemove \notin DOMAIN c.sparse_to_dense
    THEN Result(c, "assert")
    ELSE
      LET element_index == c.sparse_to_dense[handleToRemove]
          last_element == Len(c.dense_vector) - 1
      IN  IF ~ (vector_in_range(c.dense_vector, element_index)
                /\ vector_in_range(c.dense_vector, last_element))
          THEN Result(c, "ub")
          ELSE Result(
                 [c EXCEPT
                    !.dense_vector =
                        PopBack(SwapElements(c.dense_vector, element_index, last_element)),
                    !.sparse_to_dense = MapErase(c.sparse_to_dense, handleToRemove)],
                 "ok")

\* erase(HandleType handleToRemove); order is the iteration order of
\* sparse_to_dense during the call.
LfvmErase(c, handleToRemove, order) ==
    LET sparse_to_dense_it == MapFind(c.sparse_to_dense, handleToRemove)
    IN  IF sparse_to_dense_it = EndIt
        THEN Result(c, "assert")
        ELSE
          LET element_index == c.sparse_to_dense[sparse_to_dense_it]
              last_element == Len(c.dense_vector) - 1
          IN  IF element_index # last_element
              THEN IF ~ (vector_in_range(c.dense_vector, element_index)
                         /\ vector_in_range(c.dense_vector, last_element))
                   THEN Result(c, "ub")
                   ELSE
                     LET swapped == SwapElements(c.dense_vector, element_index, last_element)
                         std_last_element_it == LfvmDenseToSparse(c, last_element, order)
                     IN  IF std_last_element_it = EndIt
                         THEN Result([c EXCEPT !.dense_vector = swapped], "assert")
                         ELSE Result(
                                [c EXCEPT
                                   !.dense_vector = PopBack(swapped),
                                   !.sparse_to_dense =
                                       MapErase([c.sparse_to_dense EXCEPT
                                                    ![std_last_element_it] = element_index],
                                                sparse_to_dense_it)],
                                "ok")
              ELSE IF c.dense_vector = << >>
                   THEN Result(c, "ub")
                   ELSE Result(
                          [c EXCEPT
                             !.dense_vector = PopBack(c.dense_vector),
                             !.sparse_to_dense =
                                 MapErase(c.sparse_to_dense, sparse_to_dense_it)],
                          "ok")

\* An unchecked erase that pops the back element when the handle is not
\* in the sparse index.
LfvmEraseUnchecked_PopsBack(c, handleToRemove, order) ==
    IF MapFind(c.sparse_to_dense, handleToRemove) = EndIt
    THEN Result([c EXCEPT !.dense_vector = PopBack(c.dense_vector)], "ok")
    ELSE LfvmErase(c, handleToRemove, order)

\* erase(HandleType handleToRemove) built with NDEBUG: the two asserts
\* expand to nothing.  A handle that find() does not find fails the if and
\* the call returns; for a handle that is found the body is the body of
\* the checked build, but a scan of dense_to_sparse that finds no entry
\* returns end() and the write through it is undefined behaviour.
LfvmEraseUnchecked(c, handleToRemove, order) ==
    LET sparse_to_dense_it == MapFind(c.sparse_to_dense, handleToRemove)
        checked == LfvmErase(c, handleToRemove, order)
    IN  IF sparse_to_dense_it = EndIt
        THEN Result(c, "ok")
        ELSE IF checked.st = "assert"
        THEN Result(checked.c, "ub")
        ELSE checked

\* A clear() that empties the vector only.
LfvmClear_KeepsSparseIndex(c) == [c EXCEPT !.dense_vector = << >>]

\* clear()
LfvmClear(c) == [c EXCEPT !.dense_vector = << >>, !.sparse_to_dense = EmptyMap]

\* LightFlatValueMap fvm2 = std::move(c): the implicit, memberwise move
\* constructor.  The result is the new object.
LfvmMoveConstruct(c) ==
    [ sparse_to_dense |-> c.sparse_to_dense, dense_vector |-> c.dense_vector ]

\* A clear() of the LightFlatValueMap that starts the ids over.
LfvmClearIdCounter_Reset(counter) == 0

\* clear() has no statement on the static internalIdCounter.
LfvmClearIdCounter(counter) == counter

\* ---------------------------------------------------------------------
\* The calls that read: what each of them leaves of the object and of the
\* static internalIdCounter, and how it ends
\* ---------------------------------------------------------------------

ReadOps ==
    { "at", "find", "contains", "size", "empty", "front", "back",
      "begin", "end", "handles_begin", "handles_end" }

\* The calls that take a handle.
HandleReadOps == { "at", "find", "contains" }

\* Outcome of a call that reads: the object and the static counter after
\* the call, and how the call ended.
ReadResult(c, counter, st) == [ c |-> c, counter |-> counter, st |-> st ]

\* The object after a lookup of a handle in its sparse_to_dense.
SparseLookup(c, handle) ==
    [c EXCEPT !.sparse_to_dense = MapLookup(c.sparse_to_dense, handle)]

\* dense_vector.front() and dense_vector.back(): on an empty vector they
\* are undefined behaviour; the builds return a reference to no element or
\* stop, nothing is written.
VectorFrontBack(dense_vector) == IF dense_vector = << >> THEN "ub" ELSE "ok"

\* The reading member functions of FlatValueMap.  operator[] looks the
\* handle up twice (find in the assert, then at), find and contains once;
\* the other functions return what a member of dense_vector or of
\* sparse_to_dense returns.  None of them names internalIdCounter.
FvmRead(c, counter, op, handle) ==
    CASE op = "at" ->
           ReadResult(SparseLookup(SparseLookup(c, handle), handle), counter,
                      FvmAt(c, handle).st)
      [] op = "find" ->
           ReadResult(SparseLookup(c, handle), counter, FvmFind(c, handle).st)
      [] op = "contains" ->
           ReadResult(SparseLookup(c, handle), counter, "ok")
      [] op \in {"front", "back"} ->
           ReadResult(c, counter, VectorFrontBack(c.dense_vector))
      [] OTHER -> ReadResult(c, counter, "ok")

\* The reading member functions of LightFlatValueMap: operator[], find
\* (compiled with ENABLE_LIGHT_SPARSE_TO_DENSE_VECTOR_FIND) and contains
\* look the handle up once.
LfvmRead(c, counter, op, handle) ==
    CASE op = "at" ->
           ReadResult(SparseLookup(c, handle), counter, LfvmAt(c, handle).st)
      [] op = "find" ->
           ReadResult(SparseLookup(c, handle), counter,
                      IF LfvmContains(c, handle)
                         /\ ~ vector_in_range(c.dense_vector, c.sparse_to_dense[handle])
                      THEN "assert" ELSE "ok")
      [] op = "contains" ->
           ReadResult(SparseLookup(c, handle), counter, "ok")
      [] op \in {"front", "back"} ->
           ReadResult(c, counter, VectorFrontBack(c.dense_vector))
      [] OTHER -> ReadResult(c, counter, "ok")

\* ---------------------------------------------------------------------
\* The program: a caller driving one FlatValueMap, one LightFlatValueMap,
\* or one of each with the same calls (as the test cases do)
\* ---------------------------------------------------------------------

VARIABLES
    client,          \* which container(s) the caller drives: "fvm", "lfvm", "both"
    status,          \* "running", or how the process stopped ("assert", "throw", "ub")
    fvm,             \* the FlatValueMap object
    fvmIdCounter,    \* FlatValueMap<...>::internalIdCounter (static)
    lfvm,            \* the LightFlatValueMap object
    lfvmIdCounter,   \* LightFlatValueMap<...>::internalIdCounter (static)
    fvmLog,          \* what the caller did with fvm (history, not program state)
    lfvmLog,         \* what the caller did with lfvm (history, not program state)
    lastOp,          \* the call made by the last step
    fvm2,            \* a second FlatValueMap object of the same instantiation
    lfvm2,           \* a second LightFlatValueMap object of the same instantiation
    fvm2Log,         \* what the caller did with fvm2 (history, not program state)
    lfvm2Log         \* what the caller did with lfvm2 (history, not program state)

vars == << client, status, fvm, fvmIdCounter, lfvm, lfvmIdCounter, fvmLog, lfvmLog,
           lastOp, fvm2, lfvm2, fvm2Log, lfvm2Log >>

\* The second objects and the caller's records of them: a program with one
\* container of each class never constructs them.
second == << fvm2, lfvm2, fvm2Log, lfvm2Log >>

OnFvm == client \in {"fvm", "both"}

OnLfvm == client \in {"lfvm", "both"}

\* The caller's record of a container: live maps every handle an insert
\* returned, and that was not erased or cleared since, to the value it was
\* inserted with; returned lists the ids of the returned handles in order;
\* inserts and erased count the elements inserted and erased since
\* construction or the last clear; moved tells that the container the
\* caller holds was move-constructed from the one it held before.
LogEmpty ==
    [ live |-> EmptyMap, returned |-> << >>, inserts |-> 0, erased |-> 0,
      moved |-> FALSE ]

LogPush(log, handle, t) ==
    [ live |-> [h \in DOMAIN log.live \cup {handle} |->
                   IF h = handle THEN t ELSE log.live[h]],
      returned |-> Append(log.returned, handle),
      inserts |-> log.inserts + 1,
      erased |-> log.erased,
      moved |-> log.moved ]

LogErase(log, handles, count) ==
    [ log EXCEPT !.live = [h \in DOMAIN log.live \ handles |-> log.live[h]],
                 !.erased = log.erased + count ]

LogClear(log) == [ log EXCEPT !.live = EmptyMap, !.inserts = 0, !.erased = 0 ]

LogMove(log) == [ log EXCEPT !.moved = TRUE ]

\* The handles whose element is at one of the dense positions of a set.
HandlesAt(c, positions) ==
    { h \in DOMAIN c.sparse_to_dense : c.sparse_to_dense[h] \in positions }

\* A call: its name, the handles it is to erase (for push_back: nothing),
\* the dense position it names (for erase(handle): the position of the
\* handle when the call was made, -1 if it had none), the number of
\* positions it names, the size when the call was made, the value pushed.
Op(op, handles, index, count, size, value) ==
    [ op |-> op, handles |-> handles, index |-> index, count |-> count,
      size |-> size, value |-> value ]

\* The position the sparse index of a container gives a handle, -1 if none.
PositionOf(c, handle) ==
    IF handle \in DOMAIN c.sparse_to_dense THEN c.sparse_to_dense[handle] ELSE -1

\* The container the caller drives (the FlatValueMap when it drives both).
Driven == IF OnFvm THEN fvm ELSE lfvm

\* A call that did not return stops the process.
After(st) == IF st = "ok" THEN "running" ELSE st

Init ==
    /\ client \in {"fvm", "lfvm", "both"}
    /\ status = "running"
    /\ fvm = FvmEmpty
    /\ fvmIdCounter = 0
    /\ lfvm = LfvmEmpty
    /\ lfvmIdCounter = 0
    /\ fvmLog = LogEmpty
    /\ lfvmLog = LogEmpty
    /\ lastOp = Op("construct", {}, 0, 0, 0, NoValue)
    /\ fvm2 = FvmEmpty
    /\ lfvm2 = LfvmEmpty
    /\ fvm2Log = LogEmpty
    /\ lfvm2Log = LogEmpty

\* push_back(t) / emplace_back(t) on the container(s) of the caller
PushBack(t) ==
    /\ status = "running"
    /\ OnFvm => fvmIdCounter < MaxInserts
    /\ OnLfvm => lfvmIdCounter < MaxInserts
    /\ LET fid == PreIncrement(fvmIdCounter)
           lid == PreIncrement(lfvmIdCounter)
           rf == IF OnFvm THEN FvmPushBack(fvm, fid, t) ELSE Result(fvm, "ok")
           rl == IF OnLfvm /\ rf.st = "ok" THEN LfvmPushBack(lfvm, lid, t)
                 ELSE Result(lfvm, "ok")
       IN  /\ fvm' = rf.c
           /\ lfvm' = rl.c
           /\ fvmIdCounter' = IF OnFvm THEN fid ELSE fvmIdCounter
           /\ lfvmIdCounter' = IF OnLfvm /\ rf.st = "ok" THEN lid ELSE lfvmIdCounter
           /\ status' = After(IF rf.st # "ok" THEN rf.st ELSE rl.st)
           /\ fvmLog' = IF OnFvm /\ rf.st = "ok" THEN LogPush(fvmLog, fid, t) ELSE fvmLog
           /\ lfvmLog' = IF OnLfvm /\ rf.st = "ok" /\ rl.st = "ok"
                         THEN LogPush(lfvmLog, lid, t) ELSE lfvmLog
           /\ lastOp' = Op("push_back", {}, Len(Driven.dense_vector), 1, Len(Driven.dense_vector), t)
    /\ UNCHANGED << client, second >>

\* erase(handle) on the container(s) of the caller; outcomes are the
\* results the LightFlatValueMap call can have, one for every order in
\* which its scan can walk sparse_to_dense.
Erase(handle) ==
    /\ status = "running"
    /\ LET rf == IF OnFvm THEN FvmErase(fvm, handle) ELSE Result(fvm, "ok")
           outcomes ==
               IF OnLfvm /\ rf.st = "ok"
               THEN { LfvmErase(lfvm, handle, order) :
                         order \in IterationOrders(lfvm.sparse_to_dense) }
               ELSE { Result(lfvm, "ok") }
       IN  \E rl \in outcomes :
             /\ fvm' = rf.c
             /\ lfvm' = rl.c
             /\ status' = After(IF rf.st # "ok" THEN rf.st ELSE rl.st)
             /\ fvmLog' = IF OnFvm /\ rf.st = "ok"
                          THEN LogErase(fvmLog, {handle}, 1) ELSE fvmLog
             /\ lfvmLog' = IF OnLfvm /\ rf.st = "ok" /\ rl.st = "ok"
                           THEN LogErase(lfvmLog, {handle}, 1) ELSE lfvmLog
    /\ lastOp' = Op("erase", {handle}, PositionOf(Driven, handle), 1, Len(Driven.dense_vector), NoValue)
    /\ UNCHANGED << client, fvmIdCounter, lfvmIdCounter, second >>

\* erase(begin() + element_index) on the FlatValueMap
ErasePosition(element_index) ==
    /\ status = "running"
    /\ client = "fvm"
    /\ LET r == FvmErasePosition(fvm, element_index)
           erased == HandlesAt(fvm, {element_index})
       IN  /\ fvm' = r.c
           /\ status' = After(r.st)
           /\ fvmLog' = IF r.st = "ok" THEN LogErase(fvmLog, erased, 1) ELSE fvmLog
           /\ lastOp' = Op("erase_position", erased, element_index, 1, FvmSize(fvm), NoValue)
    /\ UNCHANGED << client, fvmIdCounter, lfvm, lfvmIdCounter, lfvmLog, second >>

\* erase(begin() + offset, begin() + offset + count) on the FlatValueMap
EraseRange(offset, count) ==
    /\ status = "running"
    /\ client = "fvm"
    /\ LET r == FvmEraseRange(fvm, offset, count)
           erased == HandlesAt(fvm, offset .. offset + count - 1)
       IN  /\ fvm' = r.c
           /\ status' = After(r.st)
           /\ fvmLog' = IF r.st = "ok" THEN LogErase(fvmLog, erased, count) ELSE fvmLog
           /\ lastOp' = Op("erase_range", erased, offset, count, FvmSize(fvm), NoValue)
    /\ UNCHANGED << client, fvmIdCounter, lfvm, lfvmIdCounter, lfvmLog, second >>

\* clear() on the container(s) of the caller
Clear ==
    /\ status = "running"
    /\ fvm' = IF OnFvm THEN FvmClear(fvm) ELSE fvm
    /\ lfvm' = IF OnLfvm THEN LfvmClear(lfvm) ELSE lfvm
    /\ fvmLog' = IF OnFvm THEN LogClear(fvmLog) ELSE fvmLog
    /\ lfvmLog' = IF OnLfvm THEN LogClear(lfvmLog) ELSE lfvmLog
    /\ fvmIdCounter' = IF OnFvm THEN FvmClearIdCounter(fvmIdCounter) ELSE fvmIdCounter
    /\ lfvmIdCounter' = IF OnLfvm THEN LfvmClearIdCounter(lfvmIdCounter) ELSE lfvmIdCounter
    /\ lastOp' = Op("clear", {}, 0, 0, Len(Driven.dense_vector), NoValue)
    /\ UNCHANGED << client, status, second >>

\* operator[](handle) on the container(s) of the caller: a read, no field
\* of the container is assigned.
At(handle) ==
    /\ status = "running"
    /\ LET rf == IF OnFvm THEN FvmAt(fvm, handle) ELSE [st |-> "ok", value |-> NoValue]
           rl == IF OnLfvm /\ rf.st = "ok" THEN LfvmAt(lfvm, handle)
                 ELSE [st |-> "ok", value |-> NoValue]
       IN  /\ status' = After(IF rf.st # "ok" THEN rf.st ELSE rl.st)
           /\ lastOp' = Op("at", {handle}, PositionOf(Driven, handle), 1,
                           Len(Driven.dense_vector),
                           IF OnFvm THEN rf.value ELSE rl.value)
    /\ UNCHANGED << client, fvm, fvmIdCounter, lfvm, lfvmIdCounter, fvmLog, lfvmLog,
                    second >>

\* T fvm2 = std::move(fvm): the caller move-constructs a new container
\* from the one it holds and goes on with the new one; the moved-from
\* object is not used again.
MoveConstruct ==
    /\ status = "running"
    /\ fvm' = IF OnFvm THEN FvmMoveConstruct(fvm) ELSE fvm
    /\ lfvm' = IF OnLfvm THEN LfvmMoveConstruct(lfvm) ELSE lfvm
    /\ fvmLog' = IF OnFvm THEN LogMove(fvmLog) ELSE fvmLog
    /\ lfvmLog' = IF OnLfvm THEN LogMove(lfvmLog) ELSE lfvmLog
    /\ lastOp' = Op("move_construct", {}, 0, 0, Len(Driven.dense_vector), NoValue)
    /\ UNCHANGED << client, status, fvmIdCounter, lfvmIdCounter, second >>

\* The handles a caller can pass: every id issued so far, and one that
\* was never issued.
Handles == 0 .. MaxInserts

Next ==
    \/ \E t \in Values : PushBack(t)
    \/ \E handle \in Handles : Erase(handle)
    \/ \E element_index \in 0 .. FvmSize(fvm) : ErasePosition(element_index)
    \/ \E offset \in 0 .. FvmSize(fvm) :
          \E count \in 0 .. FvmSize(fvm) - offset : EraseRange(offset, count)
    \/ Clear
    \/ \E handle \in Handles : At(handle)
    \/ MoveConstruct

Spec == Init /\ [][Next]_vars

\* ---------------------------------------------------------------------
\* The program that compares handles: a caller builds two handles of one
\* handle type and applies the six comparison operators to them
\* ---------------------------------------------------------------------

HandleTypes == {"FvmHandle", "LfvmHandle"}

HandleIds == 0 .. MaxHandleId

HandleInit ==
    /\ client \in HandleTypes
    /\ status = "running"
    /\ fvm = FvmEmpty
    /\ fvmIdCounter = 0
    /\ lfvm = LfvmEmpty
    /\ lfvmIdCounter = 0
    /\ fvmLog = LogEmpty
    /\ lfvmLog = LogEmpty
    /\ lastOp = Op("construct", {}, 0, 0, 0, NoValue)
    /\ fvm2 = FvmEmpty
    /\ lfvm2 = LfvmEmpty
    /\ fvm2Log = LogEmpty
    /\ lfvm2Log = LogEmpty

\* lhs == rhs, lhs != rhs, lhs < rhs, lhs <= rhs, lhs > rhs, lhs >= rhs on
\* two handles of the caller's handle type
Compare(lhs, rhs) ==
    /\ status = "running"
    /\ lastOp' = [ op |-> "compare", lhs |-> lhs, rhs |-> rhs,
                   result |-> IF client = "FvmHandle"
                              THEN FvmHandleCompare(lhs, rhs)
                              ELSE LfvmHandleCompare(lhs, rhs) ]
    /\ UNCHANGED << client, status, fvm, fvmIdCounter, lfvm, lfvmIdCounter,
                    fvmLog, lfvmLog, second >>

HandleNext ==
    \E a, b \in HandleIds :
       IF client = "FvmHandle"
       THEN Compare(FvmHandle(a), FvmHandle(b))
       ELSE Compare(LfvmHandle(a), LfvmHandle(b))

HandleSpec == HandleInit /\ [][HandleNext]_vars

\* ---------------------------------------------------------------------
\* The program that copies a FlatValueMap: a caller drives fvm, copy-
\* constructs fvm2 from it, and from then on erases handles from fvm2
\* ---------------------------------------------------------------------

CopyInit ==
    /\ client = "fvm"
    /\ status = "running"
    /\ fvm = FvmEmpty
    /\ fvmIdCounter = 0
    /\ lfvm = LfvmEmpty
    /\ lfvmIdCounter = 0
    /\ fvmLog = LogEmpty
    /\ lfvmLog = LogEmpty
    /\ lastOp = Op("construct", {}, 0, 0, 0, NoValue)
    /\ fvm2 = FvmEmpty
    /\ lfvm2 = LfvmEmpty
    /\ fvm2Log = LogEmpty
    /\ lfvm2Log = LogEmpty

\* FlatValueMap fvm2 = fvm: the caller goes on with the copy, and keeps
\* fvm.
CopyConstruct ==
    /\ status = "running"
    /\ client = "fvm"
    /\ client' = "fvm2"
    /\ fvm2' = FvmCopyConstruct(fvm)
    /\ fvm2Log' = fvmLog
    /\ lastOp' = Op("copy_construct", {}, 0, 0, FvmSize(fvm), NoValue)
    /\ UNCHANGED << status, fvm, fvmIdCounter, lfvm, lfvmIdCounter, fvmLog, lfvmLog,
                    lfvm2, lfvm2Log >>

\* fvm2.erase(handle) on the copy
EraseCopy(handle) ==
    /\ status = "running"
    /\ client = "fvm2"
    /\ \E r \in FvmEraseCopy(fvm, fvm2, handle) :
          /\ fvm' = r.a
          /\ fvm2' = r.b
          /\ status' = After(r.st)
          /\ fvm2Log' = IF r.st = "ok" THEN LogErase(fvm2Log, {handle}, 1) ELSE fvm2Log
    /\ lastOp' = Op("erase_copy", {handle}, PositionOf(fvm2, handle), 1,
                    FvmSize(fvm2), NoValue)
    /\ UNCHANGED << client, fvmIdCounter, lfvm, lfvmIdCounter, fvmLog, lfvmLog,
                    lfvm2, lfvm2Log >>

\* Until the copy is made the caller drives fvm with the calls of Next.
CopyNext ==
    \/ \E t \in Values : client = "fvm" /\ PushBack(t)
    \/ \E handle \in Handles : client = "fvm" /\ Erase(handle)
    \/ \E element_index \in 0 .. FvmSize(fvm) : ErasePosition(element_index)
    \/ \E offset \in 0 .. FvmSize(fvm) :
          \E count \in 0 .. FvmSize(fvm) - offset : EraseRange(offset, count)
    \/ client = "fvm" /\ Clear
    \/ CopyConstruct
    \/ \E handle \in Handles : EraseCopy(handle)

CopySpec == CopyInit /\ [][CopyNext]_vars

\* ---------------------------------------------------------------------
\* The program with two containers of one instantiation: a caller default-
\* constructs two FlatValueMaps (fvm, fvm2) or two LightFlatValueMaps
\* (lfvm, lfvm2) and interleaves push_back, erase and clear calls on
\* them.  internalIdCounter is a static member: the two objects of a class
\* share the one fvmIdCounter (lfvmIdCounter).
\* ---------------------------------------------------------------------

Objects == {1, 2}

TwoInit ==
    /\ client \in {"fvm", "lfvm"}
    /\ status = "running"
    /\ fvm = FvmEmpty
    /\ fvmIdCounter = 0
    /\ lfvm = LfvmEmpty
    /\ lfvmIdCounter = 0
    /\ fvmLog = LogEmpty
    /\ lfvmLog = LogEmpty
    /\ lastOp = Op("construct", {}, 0, 0, 0, NoValue)
    /\ fvm2 = FvmEmpty
    /\ lfvm2 = LfvmEmpty
    /\ fvm2Log = LogEmpty
    /\ lfvm2Log = LogEmpty

\* A call on one of the two objects: its name, the object, the handle it
\* returned or was given (0 if none).
Op2(op, object, handle) == [ op |-> op, object |-> object, handle |-> handle ]

\* fvm.push_back(t) (object 1) or fvm2.push_back(t) (object 2)
FvmPushBackOn(object, t) ==
    /\ status = "running"
    /\ client = "fvm"
    /\ fvmIdCounter < MaxInserts
    /\ LET id == PreIncrement(fvmIdCounter)
           r == FvmPushBack(IF object = 1 THEN fvm ELSE fvm2, id, t)
       IN  /\ fvmIdCounter' = id
           /\ fvm' = IF object = 1 THEN r.c ELSE fvm
           /\ fvm2' = IF object = 2 THEN r.c ELSE fvm2
           /\ status' = After(r.st)
           /\ fvmLog' = IF object = 1 /\ r.st = "ok" THEN LogPush(fvmLog, id, t) ELSE fvmLog
           /\ fvm2Log' = IF object = 2 /\ r.st = "ok" THEN LogPush(fvm2Log, id, t) ELSE fvm2Log
           /\ lastOp' = Op2("push_back", object, id)
    /\ UNCHANGED << client, lfvm, lfvmIdCounter, lfvmLog, lfvm2, lfvm2Log >>

\* fvm.erase(handle) or fvm2.erase(handle)
FvmEraseOn(object, handle) ==
    /\ status = "running"
    /\ client = "fvm"
    /\ LET r == FvmErase(IF object = 1 THEN fvm ELSE fvm2, handle)
       IN  /\ fvm' = IF object = 1 THEN r.c ELSE fvm
           /\ fvm2' = IF object = 2 THEN r.c ELSE fvm2
           /\ status' = After(r.st)
           /\ fvmLog' = IF object = 1 /\ r.st = "ok"
                        THEN LogErase(fvmLog, {handle}, 1) ELSE fvmLog
           /\ fvm2Log' = IF object = 2 /\ r.st = "ok"
                         THEN LogErase(fvm2Log, {handle}, 1) ELSE fvm2Log
           /\ lastOp' = Op2("erase", object, handle)
    /\ UNCHANGED << client, fvmIdCounter, lfvm, lfvmIdCounter, lfvmLog, lfvm2, lfvm2Log >>

\* fvm.clear() or fvm2.clear()
FvmClearOn(object) ==
    /\ status = "running"
    /\ client = "fvm"
    /\ fvm' = IF object = 1 THEN FvmClear(fvm) ELSE fvm
    /\ fvm2' = IF object = 2 THEN FvmClear(fvm2) ELSE fvm2
    /\ fvmLog' = IF object = 1 THEN LogClear(fvmLog) ELSE fvmLog
    /\ fvm2Log' = IF object = 2 THEN LogClear(fvm2Log) ELSE fvm2Log
    /\ fvmIdCounter' = FvmClearIdCounter(fvmIdCounter)
    /\ lastOp' = Op2("clear", object, 0)
    /\ UNCHANGED << client, status, lfvm, lfvmIdCounter, lfvmLog, lfvm2, lfvm2Log >>

\* lfvm.push_back(t) or lfvm2.push_back(t)
LfvmPushBackOn(object, t) ==
    /\ status = "running"
    /\ client = "lfvm"
    /\ lfvmIdCounter < MaxInserts
    /\ LET id == PreIncrement(lfvmIdCounter)
           r == LfvmPushBack(IF object = 1 THEN lfvm ELSE lfvm2, id, t)
       IN  /\ lfvmIdCounter' = id
           /\ lfvm' = IF object = 1 THEN r.c ELSE lfvm
           /\ lfvm2' = IF object = 2 THEN r.c ELSE lfvm2
           /\ status' = After(r.st)
           /\ lfvmLog' = IF object = 1 /\ r.st = "ok" THEN LogPush(lfvmLog, id, t) ELSE lfvmLog
           /\ lfvm2Log' = IF object = 2 /\ r.st = "ok" THEN LogPush(lfvm2Log, id, t) ELSE lfvm2Log
           /\ lastOp' = Op2("push_back", object, id)
    /\ UNCHANGED << client, fvm, fvmIdCounter, fvmLog, fvm2, fvm2Log >>

\* lfvm.erase(handle) or lfvm2.erase(handle), with every order in which
\* the scan of the call can walk sparse_to_dense
LfvmEraseOn(object, handle) ==
    /\ status = "running"
    /\ client = "lfvm"
    /\ LET c == IF object = 1 THEN lfvm ELSE lfvm2
           outcomes == { LfvmErase(c, handle, order) :
                            order \in IterationOrders(c.sparse_to_dense) }
       IN  \E r \in outcomes :
             /\ lfvm' = IF object = 1 THEN r.c ELSE lfvm
             /\ lfvm2' = IF object = 2 THEN r.c ELSE lfvm2
             /\ status' = After(r.st)
             /\ lfvmLog' = IF object = 1 /\ r.st = "ok"
                           THEN LogErase(lfvmLog, {handle}, 1) ELSE lfvmLog
             /\ lfvm2Log' = IF object = 2 /\ r.st = "ok"
                            THEN LogErase(lfvm2Log, {handle}, 1) ELSE lfvm2Log
    /\ lastOp' = Op2("erase", object, handle)
    /\ UNCHANGED << client, lfvmIdCounter, fvm, fvmIdCounter, fvmLog, fvm2, fvm2Log >>

\* lfvm.clear() or lfvm2.clear()
LfvmClearOn(object) ==
    /\ status = "running"
    /\ client = "lfvm"
    /\ lfvm' = IF object = 1 THEN LfvmClear(lfvm) ELSE lfvm
    /\ lfvm2' = IF object = 2 THEN LfvmClear(lfvm2) ELSE lfvm2
    /\ lfvmLog' = IF object = 1 THEN LogClear(lfvmLog) ELSE lfvmLog
    /\ lfvm2Log' = IF object = 2 THEN LogClear(lfvm2Log) ELSE lfvm2Log
    /\ lfvmIdCounter' = LfvmClearIdCounter(lfvmIdCounter)
    /\ lastOp' = Op2("clear", object, 0)
    /\ UNCHANGED << client, status, fvm, fvmIdCounter, fvmLog, fvm2, fvm2Log >>

TwoNext ==
    \/ \E object \in Objects : \E t \in Values : FvmPushBackOn(object, t)
    \/ \E object \in Objects : \E handle \in Handles : FvmEraseOn(object, handle)
    \/ \E object \in Objects : FvmClearOn(object)
    \/ \E object \in Objects : \E t \in Values : LfvmPushBackOn(object, t)
    \/ \E object \in Objects : \E handle \in Handles : LfvmEraseOn(object, handle)
    \/ \E object \in Objects : LfvmClearOn(object)

TwoSpec == TwoInit /\ [][TwoNext]_vars

\* ---------------------------------------------------------------------
\* The program that inserts until the id counter wraps: a caller drives
\* one FlatValueMap or one LightFlatValueMap whose internalIdCounter has
\* IdWidth bits, with push_back, erase(handle) and clear calls
\* ---------------------------------------------------------------------

WrapInit ==
    /\ client \in {"fvm", "lfvm"}
    /\ status = "running"
    /\ fvm = FvmEmpty
    /\ fvmIdCounter = 0
    /\ lfvm = LfvmEmpty
    /\ lfvmIdCounter = 0
    /\ fvmLog = LogEmpty
    /\ lfvmLog = LogEmpty
    /\ lastOp = Op("construct", {}, 0, 0, 0, NoValue)
    /\ fvm2 = FvmEmpty
    /\ lfvm2 = LfvmEmpty
    /\ fvm2Log = LogEmpty
    /\ lfvm2Log = LogEmpty

\* push_back(t) on the container of the caller, the counter wrapping
WrapPushBack(t) ==
    /\ status = "running"
    /\ OnFvm => Len(fvmLog.returned) < MaxWrapInserts
    /\ OnLfvm => Len(lfvmLog.returned) < MaxWrapInserts
    /\ LET fid == PreIncrementWrap(fvmIdCounter)
           lid == PreIncrementWrap(lfvmIdCounter)
           rf == IF OnFvm THEN FvmPushBack(fvm, fid, t) ELSE Result(fvm, "ok")
           rl == IF OnLfvm THEN LfvmPushBack(lfvm, lid, t) ELSE Result(lfvm, "ok")
       IN  /\ fvm' = rf.c
           /\ lfvm' = rl.c
           /\ fvmIdCounter' = IF OnFvm THEN fid ELSE fvmIdCounter
           /\ lfvmIdCounter' = IF OnLfvm THEN lid ELSE lfvmIdCounter
           /\ status' = After(IF rf.st # "ok" THEN rf.st ELSE rl.st)
           /\ fvmLog' = IF OnFvm /\ rf.st = "ok" THEN LogPush(fvmLog, fid, t) ELSE fvmLog
           /\ lfvmLog' = IF OnLfvm /\ rl.st = "ok" THEN LogPush(lfvmLog, lid, t) ELSE lfvmLog
           /\ lastOp' = Op("push_back", {}, Len(Driven.dense_vector), 1,
                           Len(Driven.dense_vector), t)
    /\ UNCHANGED << client, second >>

WrapNext ==
    \/ \E t \in Values : WrapPushBack(t)
    \/ \E handle \in Handles : Erase(handle)
    \/ Clear

WrapSpec == WrapInit /\ [][WrapNext]_vars

\* ---------------------------------------------------------------------
\* The program built with NDEBUG: a caller drives one LightFlatValueMap
\* whose assertions are compiled out, with push_back, erase(handle) and
\* clear calls
\* ---------------------------------------------------------------------

NDebugInit ==
    /\ client = "lfvm"
    /\ status = "running"
    /\ fvm = FvmEmpty
    /\ fvmIdCounter = 0
    /\ lfvm = LfvmEmpty
    /\ lfvmIdCounter = 0
    /\ fvmLog = LogEmpty
    /\ lfvmLog = LogEmpty
    /\ lastOp = Op("construct", {}, 0, 0, 0, NoValue)
    /\ fvm2 = FvmEmpty
    /\ lfvm2 = LfvmEmpty
    /\ fvm2Log = LogEmpty
    /\ lfvm2Log = LogEmpty

\* erase(handle) on the LightFlatValueMap, assertions compiled out, with
\* every order in which the scan of the call can walk sparse_to_dense.
\* The caller's record loses the handle only if the container had it.
EraseUnchecked(handle) ==
    /\ status = "running"
    /\ LET outcomes == { LfvmEraseUnchecked(lfvm, handle, order) :
                            order \in IterationOrders(lfvm.sparse_to_dense) }
       IN  \E r \in outcomes :
             /\ lfvm' = r.c
             /\ status' = After(r.st)
             /\ lfvmLog' = IF r.st = "ok" /\ LfvmContains(lfvm, handle)
                           THEN LogErase(lfvmLog, {handle}, 1) ELSE lfvmLog
    /\ lastOp' = Op("erase", {handle}, PositionOf(lfvm, handle), 1, LfvmSize(lfvm), NoValue)
    /\ UNCHANGED << client, fvm, fvmIdCounter, fvmLog, lfvmIdCounter, second >>

NDebugNext ==
    \/ \E t \in Values : PushBack(t)
    \/ \E handle \in Handles : EraseUnchecked(handle)
    \/ Clear

NDebugSpec == NDebugInit /\ [][NDebugNext]_vars

\* ---------------------------------------------------------------------
\* The program that reads: a caller drives one FlatValueMap or one
\* LightFlatValueMap with push_back, erase(handle) and clear calls, and
\* between them calls the member functions that read
\* ---------------------------------------------------------------------

ReadInit ==
    /\ client \in {"fvm", "lfvm"}
    /\ status = "running"
    /\ fvm = FvmEmpty
    /\ fvmIdCounter = 0
    /\ lfvm = LfvmEmpty
    /\ lfvmIdCounter = 0
    /\ fvmLog = LogEmpty
    /\ lfvmLog = LogEmpty
    /\ lastOp = Op("construct", {}, 0, 0, 0, NoValue)
    /\ fvm2 = FvmEmpty
    /\ lfvm2 = LfvmEmpty
    /\ fvm2Log = LogEmpty
    /\ lfvm2Log = LogEmpty

\* One of the reading calls on the container of the caller; handle is the
\* argument of the calls that take one.
Read(op, handle) ==
    /\ status = "running"
    /\ LET rf == IF OnFvm THEN FvmRead(fvm, fvmIdCounter, op, handle)
                 ELSE ReadResult(fvm, fvmIdCounter, "ok")
           rl == IF OnLfvm THEN LfvmRead(lfvm, lfvmIdCounter, op, handle)
                 ELSE ReadResult(lfvm, lfvmIdCounter, "ok")
       IN  /\ fvm' = rf.c
           /\ fvmIdCounter' = rf.counter
           /\ lfvm' = rl.c
           /\ lfvmIdCounter' = rl.counter
           /\ status' = After(IF rf.st # "ok" THEN rf.st ELSE rl.st)
    /\ lastOp' = Op(op, IF op \in HandleReadOps THEN {handle} ELSE {},
                    IF op \in HandleReadOps THEN PositionOf(Driven, handle) ELSE 0,
                    0, Len(Driven.dense_vector), NoValue)
    /\ UNCHANGED << client, fvmLog, lfvmLog, second >>

ReadNext ==
    \/ \E t \in Values : PushBack(t)
    \/ \E handle \in Handles : Erase(handle)
    \/ Clear
    \/ \E op \in HandleReadOps : \E handle \in Handles : Read(op, handle)
    \/ \E op \in ReadOps \ HandleReadOps : Read(op, 0)

ReadSpec == ReadInit /\ [][ReadNext]_vars

\* No call runs into undefined behaviour or an exception.
NoUndefinedBehaviour == status \in {"running", "assert"}

\* ---------------------------------------------------------------------
\* Properties
\* ---------------------------------------------------------------------

EraseOps == {"erase", "erase_position", "erase_range"}

\* C1: FlatValueMap round trip.  In every reachable state, whatever
\* push_back, erase(handle), erase(position), erase(first,last) and clear
\* calls led to it, every handle that an insert returned and that was not
\* erased or cleared since is in the sparse index, its position is below
\* size(), the vector holds the inserted value there, and operator[]
\* returns that value.
C1_RoundTrip ==
    OnFvm =>
      \A h \in DOMAIN fvmLog.live :
         /\ h \in DOMAIN fvm.sparse_to_dense
         /\ fvm.sparse_to_dense[h] >= 0
         /\ fvm.sparse_to_dense[h] < FvmSize(fvm)
         /\ fvm.dense_vector[fvm.sparse_to_dense[h] + 1] = fvmLog.live[h]
         /\ FvmAt(fvm, h) = [st |-> "ok", value |-> fvmLog.live[h]]

\* A range erase that moved an element has returned, and two handles with
\* different values are still live.
C1_Witness ==
    /\ client = "fvm" /\ status = "running"
    /\ lastOp.op = "erase_range" /\ lastOp.count >= 1
    /\ lastOp.index + lastOp.count < lastOp.size
    /\ \E h, g \in DOMAIN fvmLog.live :
          /\ fvmLog.live[h] # fvmLog.live[g]
          /\ FvmAt(fvm, h).value = fvmLog.live[h]
          /\ FvmAt(fvm, g).value = fvmLog.live[g]

\* C2: FlatValueMap reverse-index bijection.  In every reachable state
\* dense_to_sparse[P] = H exactly when sparse_to_dense[H] = P, the keys of
\* dense_to_sparse are exactly 0 .. size()-1, and both maps have size()
\* entries.
C2_ReverseIndexBijection ==
    OnFvm =>
      /\ \A P \in DOMAIN fvm.dense_to_sparse \cup 0 .. FvmSize(fvm) :
           \A H \in DOMAIN fvm.sparse_to_dense \cup Handles :
              (P \in DOMAIN fvm.dense_to_sparse /\ fvm.dense_to_sparse[P] = H)
                <=> (H \in DOMAIN fvm.sparse_to_dense /\ fvm.sparse_to_dense[H] = P)
      /\ DOMAIN fvm.dense_to_sparse = 0 .. FvmSize(fvm) - 1
      /\ Cardinality(DOMAIN fvm.dense_to_sparse) = FvmSize(fvm)
      /\ Cardinality(DOMAIN fvm.sparse_to_dense) = FvmSize(fvm)

\* An erase of an element that was not the back element has returned and
\* left at least two elements.
C2_Witness ==
    /\ client = "fvm" /\ status = "running"
    /\ lastOp.op \in EraseOps
    /\ lastOp.index + lastOp.count < lastOp.size
    /\ FvmSize(fvm) >= 2
    /\ fvm.dense_to_sparse[lastOp.index] \in DOMAIN fvm.sparse_to_dense

\* C3: erase completeness of FlatValueMap.  Every erase(h) of a live
\* handle h returns, afterwards contains(h) is false, and every other
\* handle that was live before the call is still contained and operator[]
\* returns for it what it returned before the call.
C3_EraseCompleteness ==
    [][ (OnFvm /\ lastOp'.op = "erase" /\ lastOp'.handles \subseteq DOMAIN fvmLog.live)
          => /\ status' = "running"
             /\ \A h \in lastOp'.handles : ~ FvmContains(fvm', h)
             /\ \A g \in DOMAIN fvmLog.live \ lastOp'.handles :
                   /\ FvmContains(fvm', g)
                   /\ FvmAt(fvm', g).st = "ok"
                   /\ FvmAt(fvm', g) = FvmAt(fvm, g) ]_vars

\* erase(h) of a live handle has returned and other handles are live.
C3_Witness ==
    /\ client = "fvm" /\ status = "running"
    /\ lastOp.op = "erase"
    /\ lastOp.index >= 0
    /\ \A h \in lastOp.handles : ~ FvmContains(fvm, h)
    /\ Cardinality(DOMAIN fvmLog.live) >= 2

\* C4: swap correctness.  When erase(h) is called on a live handle whose
\* position p is not the last position, the call returns and the handle h2
\* that was at the last position maps to p, dense_vector[p] holds the value
\* h2 was inserted with, and in FlatValueMap dense_to_sparse[p] is h2.
C4_SwapCorrectness ==
    [][ lastOp'.op = "erase" =>
          /\ (OnFvm /\ lastOp'.handles \subseteq DOMAIN fvmLog.live
                /\ \E h \in lastOp'.handles : PositionOf(fvm, h) # FvmSize(fvm) - 1)
               => /\ status' = "running"
                  /\ HandlesAt(fvm, {FvmSize(fvm) - 1}) # {}
                  /\ \A h \in lastOp'.handles :
                       \A h2 \in HandlesAt(fvm, {FvmSize(fvm) - 1}) :
                          /\ PositionOf(fvm', h2) = PositionOf(fvm, h)
                          /\ fvm'.dense_vector[PositionOf(fvm, h) + 1] = fvmLog.live[h2]
                          /\ fvm'.dense_to_sparse[PositionOf(fvm, h)] = h2
          /\ (OnLfvm /\ lastOp'.handles \subseteq DOMAIN lfvmLog.live
                /\ \E h \in lastOp'.handles : PositionOf(lfvm, h) # LfvmSize(lfvm) - 1)
               => /\ status' = "running"
                  /\ HandlesAt(lfvm, {LfvmSize(lfvm) - 1}) # {}
                  /\ \A h \in lastOp'.handles :
                       \A h2 \in HandlesAt(lfvm, {LfvmSize(lfvm) - 1}) :
                          /\ PositionOf(lfvm', h2) = PositionOf(lfvm, h)
                          /\ lfvm'.dense_vector[PositionOf(lfvm, h) + 1] = lfvmLog.live[h2]
      ]_vars

\* erase(h) of the first of at least three elements has returned, in both
\* containers; the element now first is not the one inserted first.
C4_Witness ==
    /\ client = "both" /\ status = "running"
    /\ lastOp.op = "erase" /\ lastOp.index = 0 /\ lastOp.size >= 3
    /\ \A h \in lastOp.handles : ~ FvmContains(fvm, h) /\ ~ LfvmContains(lfvm, h)
    /\ fvm.dense_to_sparse[0] > fvm.dense_to_sparse[1]
    /\ PositionOf(lfvm, fvm.dense_to_sparse[0]) = 0

\* The position and value LightFlatValueMap gives every live handle.
LfvmRoundTrip ==
    OnLfvm =>
      \A h \in DOMAIN lfvmLog.live :
         /\ h \in DOMAIN lfvm.sparse_to_dense
         /\ lfvm.sparse_to_dense[h] >= 0
         /\ lfvm.sparse_to_dense[h] < LfvmSize(lfvm)
         /\ lfvm.dense_vector[lfvm.sparse_to_dense[h] + 1] = lfvmLog.live[h]
         /\ LfvmAt(lfvm, h) = [st |-> "ok", value |-> lfvmLog.live[h]]

\* C5: LightFlatValueMap round trip and erase completeness.  In every
\* reachable state every live handle maps to a position below size() that
\* holds the value it was inserted with; every erase(h) of a live handle
\* returns, leaves contains(h) false and leaves every other live handle
\* resolving to its value, whatever order the linear scan walks the map in.
C5_LightRoundTripAndErase ==
    /\ []LfvmRoundTrip
    /\ [][ (OnLfvm /\ lastOp'.op = "erase" /\ lastOp'.handles \subseteq DOMAIN lfvmLog.live)
             => /\ status' = "running"
                /\ \A h \in lastOp'.handles : ~ LfvmContains(lfvm', h)
                /\ \A g \in DOMAIN lfvmLog.live \ lastOp'.handles :
                      /\ LfvmContains(lfvm', g)
                      /\ LfvmAt(lfvm', g) = [st |-> "ok", value |-> lfvmLog.live[g]]
                /\ LfvmSize(lfvm') = LfvmSize(lfvm) - 1
                /\ DOMAIN lfvm'.sparse_to_dense = DOMAIN lfvm.sparse_to_dense \ lastOp'.handles
         ]_vars

\* erase(h) of an element that was not the back element has returned on a
\* LightFlatValueMap driven alone, with two differing values left.
C5_Witness ==
    /\ client = "lfvm" /\ status = "running"
    /\ lastOp.op = "erase" /\ lastOp.index >= 0 /\ lastOp.index < lastOp.size - 1
    /\ \E h, g \in DOMAIN lfvmLog.live :
          /\ lfvmLog.live[h] # lfvmLog.live[g]
          /\ LfvmAt(lfvm, h).value = lfvmLog.live[h]
          /\ LfvmAt(lfvm, g).value = lfvmLog.live[g]

\* C6: variant equivalence.  When the same push_back, erase(handle) and
\* clear calls are applied to a FlatValueMap and a LightFlatValueMap, both
\* starting empty with their counters at 0, then after every step the two
\* have the same size(), the same dense storage, the same handle-to-position
\* map and give every handle the same value.
C6_VariantEquivalence ==
    client = "both" =>
      /\ FvmSize(fvm) = LfvmSize(lfvm)
      /\ fvm.dense_vector = lfvm.dense_vector
      /\ fvm.sparse_to_dense = lfvm.sparse_to_dense
      /\ fvmIdCounter = lfvmIdCounter
      /\ \A h \in Handles : FvmAt(fvm, h) = LfvmAt(lfvm, h)
      /\ \A h \in Handles : FvmContains(fvm, h) = LfvmContains(lfvm, h)

\* Both containers have been through an erase that moved an element and
\* hold at least two elements afterwards.
C6_Witness ==
    /\ client = "both" /\ status = "running"
    /\ lastOp.op = "erase" /\ lastOp.index >= 0 /\ lastOp.index < lastOp.size - 1
    /\ LfvmSize(lfvm) >= 2 /\ FvmSize(fvm) >= 2
    /\ \E i, j \in 1 .. LfvmSize(lfvm) : lfvm.dense_vector[i] # lfvm.dense_vector[j]

Last(seq) == seq[Len(seq)]

\* C7: handle uniqueness.  Every push_back returns (its emplace never hits
\* an existing key), and the handle it returns is not equal to any handle
\* that is live or in the sparse index when the call is made; so the live
\* handles are as many as the live elements.
C7_HandleUniqueness ==
    [][ lastOp'.op = "push_back" =>
          /\ status' = "running"
          /\ OnFvm =>
               /\ Len(fvmLog'.returned) = Len(fvmLog.returned) + 1
               /\ Last(fvmLog'.returned) \notin DOMAIN fvmLog.live
               /\ Last(fvmLog'.returned) \notin DOMAIN fvm.sparse_to_dense
               /\ Last(fvmLog'.returned) \in DOMAIN fvm'.sparse_to_dense
               /\ Cardinality(DOMAIN fvmLog'.live) = fvmLog'.inserts - fvmLog'.erased
          /\ OnLfvm =>
               /\ Len(lfvmLog'.returned) = Len(lfvmLog.returned) + 1
               /\ Last(lfvmLog'.returned) \notin DOMAIN lfvmLog.live
               /\ Last(lfvmLog'.returned) \notin DOMAIN lfvm.sparse_to_dense
               /\ Last(lfvmLog'.returned) \in DOMAIN lfvm'.sparse_to_dense
               /\ Cardinality(DOMAIN lfvmLog'.live) = lfvmLog'.inserts - lfvmLog'.erased
      ]_vars

\* A push_back has returned after an erase and a clear, and two handles
\* are live.
C7_Witness ==
    /\ status = "running"
    /\ lastOp.op = "push_back"
    /\ \/ /\ OnFvm /\ Cardinality(DOMAIN fvmLog.live) >= 2
          /\ Len(fvmLog.returned) > fvmLog.inserts + 1
       \/ /\ OnLfvm /\ Cardinality(DOMAIN lfvmLog.live) >= 2
          /\ Len(lfvmLog.returned) > lfvmLog.inserts + 1

\* C8: no handle recycling.  The id of the handle a push_back returns is
\* greater than the id of every handle returned before, and no erase and
\* no clear changes an id counter.
C8_NoHandleRecycling ==
    [][ /\ lastOp'.op = "push_back" =>
             /\ OnFvm /\ status' = "running" =>
                  /\ Len(fvmLog'.returned) = Len(fvmLog.returned) + 1
                  /\ \A i \in 1 .. Len(fvmLog.returned) :
                        fvmLog.returned[i] < Last(fvmLog'.returned)
             /\ OnLfvm /\ status' = "running" =>
                  /\ Len(lfvmLog'.returned) = Len(lfvmLog.returned) + 1
                  /\ \A i \in 1 .. Len(lfvmLog.returned) :
                        lfvmLog.returned[i] < Last(lfvmLog'.returned)
        /\ lastOp'.op \in EraseOps \cup {"clear"} =>
             /\ fvmIdCounter' = fvmIdCounter
             /\ lfvmIdCounter' = lfvmIdCounter
      ]_vars

\* A push_back has returned after a clear that followed earlier inserts.
C8_Witness ==
    /\ client = "fvm" /\ status = "running"
    /\ lastOp.op = "push_back"
    /\ fvmLog.inserts = 1
    /\ Len(fvmLog.returned) >= 3
    /\ \A i \in 1 .. Len(fvmLog.returned) - 1 :
          fvmLog.returned[i] \notin DOMAIN fvmLog.live

\* C9: size invariant.  In every reachable state size() is the number of
\* inserts minus the number of erased elements since construction or the
\* last clear, that is the number of sparse index entries, and empty() is
\* true exactly when that number is 0.
C9_SizeInvariant ==
    /\ OnFvm =>
         /\ FvmSize(fvm) = fvmLog.inserts - fvmLog.erased
         /\ FvmSize(fvm) = Cardinality(DOMAIN fvm.sparse_to_dense)
         /\ FvmIsEmpty(fvm) <=> (fvmLog.inserts - fvmLog.erased = 0)
    /\ OnLfvm =>
         /\ LfvmSize(lfvm) = lfvmLog.inserts - lfvmLog.erased
         /\ LfvmSize(lfvm) = Cardinality(DOMAIN lfvm.sparse_to_dense)
         /\ LfvmIsEmpty(lfvm) <=> (lfvmLog.inserts - lfvmLog.erased = 0)

\* Three elements were inserted and every one erased again, the first
\* inserted last; the container is empty.
C9_Witness ==
    /\ client = "fvm" /\ status = "running"
    /\ lastOp.op = "erase" /\ lastOp.index = 0
    /\ fvmLog.inserts = 3 /\ fvmLog.erased = 3
    /\ lastOp.handles = {fvmLog.returned[Len(fvmLog.returned) - 2]}
    /\ FvmIsEmpty(fvm) /\ FvmSize(fvm) = 0

\* C10: erase(position).  For a position i below size(), erase(begin()+i)
\* returns and leaves the container as erase(h) would, h being the handle
\* the sparse index maps to position i: size() is one less, h is not
\* contained, and every other live handle resolves to its value.
C10_ErasePosition ==
    [][ (lastOp'.op = "erase_position" /\ lastOp'.index < FvmSize(fvm)) =>
          /\ status' = "running"
          /\ Cardinality(HandlesAt(fvm, {lastOp'.index})) = 1
          /\ lastOp'.handles = HandlesAt(fvm, {lastOp'.index})
          /\ \A h \in HandlesAt(fvm, {lastOp'.index}) :
                /\ h \in DOMAIN fvmLog.live
                /\ FvmErase(fvm, h) = Result(fvm', "ok")
                /\ ~ FvmContains(fvm', h)
                /\ \A g \in DOMAIN fvmLog.live \ {h} :
                      FvmAt(fvm', g) = [st |-> "ok", value |-> fvmLog.live[g]]
          /\ FvmSize(fvm') = FvmSize(fvm) - 1
      ]_vars

\* erase(begin()+i) has returned for a position that was neither the
\* first nor the last.
C10_Witness ==
    /\ client = "fvm" /\ status = "running"
    /\ lastOp.op = "erase_position"
    /\ lastOp.index > 0 /\ lastOp.index < lastOp.size - 1
    /\ FvmSize(fvm) = lastOp.size - 1
    /\ \A h \in lastOp.handles : ~ FvmContains(fvm, h)

\* C11: erase(first,last).  For every range [a,b) of positions with
\* a <= b <= size(), the whole container and ranges ending at end()
\* included, erase(begin()+a, begin()+b) returns, size() has dropped by
\* b-a, exactly the handles the sparse index had at positions a..b-1 are no
\* longer contained, and every other live handle resolves to its value.
C11_EraseRange ==
    [][ lastOp'.op = "erase_range" =>
          /\ status' = "running"
          /\ FvmSize(fvm') = FvmSize(fvm) - lastOp'.count
          /\ lastOp'.handles = HandlesAt(fvm, lastOp'.index .. lastOp'.index + lastOp'.count - 1)
          /\ Cardinality(lastOp'.handles) = lastOp'.count
          /\ lastOp'.handles \subseteq DOMAIN fvmLog.live
          /\ DOMAIN fvm'.sparse_to_dense = DOMAIN fvm.sparse_to_dense \ lastOp'.handles
          /\ \A h \in lastOp'.handles : ~ FvmContains(fvm', h)
          /\ \A g \in DOMAIN fvmLog.live \ lastOp'.handles :
                /\ FvmContains(fvm', g)
                /\ FvmAt(fvm', g) = [st |-> "ok", value |-> fvmLog.live[g]]
      ]_vars

\* Of four elements the two in the middle were erased as a range; the first
\* and the last inserted are left.
C11_Witness ==
    /\ client = "fvm" /\ status = "running"
    /\ lastOp.op = "erase_range"
    /\ lastOp.index = 1 /\ lastOp.count = 2 /\ lastOp.size = 4
    /\ FvmSize(fvm) = 2
    /\ Cardinality(DOMAIN fvmLog.live) = 2
    /\ \A h \in lastOp.handles : ~ FvmContains(fvm, h)

\* C12: find on FlatValueMap.  In every reachable state find(h) of a live
\* handle h returns the iterator at h's dense position, which dereferences
\* to h's value; find(h) of a handle that was erased, cleared or never
\* issued returns end(); so find(h) # end() exactly when contains(h).
C12_Find ==
    OnFvm =>
      \A h \in Handles :
         /\ FvmFind(fvm, h).st = "ok"
         /\ h \in DOMAIN fvmLog.live =>
               /\ FvmFind(fvm, h).it = FvmBegin(fvm) + PositionOf(fvm, h)
               /\ FvmFind(fvm, h).it # FvmEnd(fvm)
               /\ fvm.dense_vector[FvmFind(fvm, h).it + 1] = fvmLog.live[h]
         /\ h \notin DOMAIN fvmLog.live => FvmFind(fvm, h).it = FvmEnd(fvm)
         /\ (FvmFind(fvm, h).it # FvmEnd(fvm)) <=> FvmContains(fvm, h)

\* Two handles were erased and two are left, one of them moved by an erase;
\* find gives end() for the erased ones and the elements of the others.
C12_Witness ==
    /\ client = "fvm" /\ status = "running"
    /\ lastOp.op = "erase"
    /\ Len(fvmLog.returned) = 4 /\ fvmLog.erased = 2 /\ FvmSize(fvm) = 2
    /\ \E h \in DOMAIN fvmLog.live : PositionOf(fvm, h) = 0 /\ h # fvmLog.returned[1]
    /\ \A i \in 1 .. 4 :
          (FvmFind(fvm, fvmLog.returned[i]).it = FvmEnd(fvm))
             <=> (fvmLog.returned[i] \notin DOMAIN fvmLog.live)

\* C13: clear.  After every clear() size() is 0, empty() is true, the
\* vector, the sparse index and (FlatValueMap) the reverse index are empty
\* and contains(h) is false for every handle issued before; clear() on an
\* empty container leaves the container as it was, and a second clear()
\* changes nothing after a first.
C13_Clear ==
    [][ lastOp'.op = "clear" =>
          /\ status' = "running"
          /\ OnFvm =>
               /\ FvmSize(fvm') = 0 /\ FvmIsEmpty(fvm')
               /\ fvm'.dense_vector = << >>
               /\ DOMAIN fvm'.sparse_to_dense = {}
               /\ DOMAIN fvm'.dense_to_sparse = {}
               /\ \A i \in 1 .. Len(fvmLog.returned) : ~ FvmContains(fvm', fvmLog.returned[i])
               /\ \A h \in Handles : ~ FvmContains(fvm', h)
               /\ FvmIsEmpty(fvm) => fvm' = fvm
               /\ FvmClear(fvm') = fvm'
          /\ OnLfvm =>
               /\ LfvmSize(lfvm') = 0 /\ LfvmIsEmpty(lfvm')
               /\ lfvm'.dense_vector = << >>
               /\ DOMAIN lfvm'.sparse_to_dense = {}
               /\ \A i \in 1 .. Len(lfvmLog.returned) : ~ LfvmContains(lfvm', lfvmLog.returned[i])
               /\ \A h \in Handles : ~ LfvmContains(lfvm', h)
               /\ LfvmIsEmpty(lfvm) => lfvm' = lfvm
               /\ LfvmClear(lfvm') = lfvm'
      ]_vars

\* A clear() has emptied a container that held elements and had issued
\* three handles, one of them erased before.
C13_Witness ==
    /\ status = "running"
    /\ lastOp.op = "clear" /\ lastOp.size >= 2
    /\ OnFvm
    /\ Len(fvmLog.returned) = 3
    /\ FvmIsEmpty(fvm) /\ DOMAIN fvm.dense_to_sparse = {}
    /\ \A i \in 1 .. 3 : ~ FvmContains(fvm, fvmLog.returned[i])

\* The elements a walk visited are the values of the live handles of a
\* log, one visit for each: the sparse index maps the live handles one to
\* one onto the positions visited.
VisitsEachLiveOnce(visited, c, log) ==
    /\ Len(visited) = Len(c.dense_vector)
    /\ Cardinality(DOMAIN log.live) = Len(visited)
    /\ \A h \in DOMAIN log.live :
          /\ h \in DOMAIN c.sparse_to_dense
          /\ c.sparse_to_dense[h] \in 0 .. Len(visited) - 1
          /\ visited[c.sparse_to_dense[h] + 1] = log.live[h]
    /\ \A h, g \in DOMAIN log.live :
          h # g => c.sparse_to_dense[h] # c.sparse_to_dense[g]
    /\ \A i \in 0 .. Len(visited) - 1 :
          \E h \in DOMAIN log.live : c.sparse_to_dense[h] = i

\* C14: iteration completeness.  In every reachable state iterating from
\* begin() to end() visits exactly size() elements, and they are exactly
\* the values of the live handles, each live handle's element once.
C14_IterationCompleteness ==
    /\ OnFvm => VisitsEachLiveOnce(FvmIterate(fvm), fvm, fvmLog)
    /\ OnLfvm => VisitsEachLiveOnce(LfvmIterate(lfvm), lfvm, lfvmLog)

\* After an erase that moved an element the walk visits three elements,
\* not all equal, and no longer in the order of insertion.
C14_Witness ==
    /\ client = "fvm" /\ status = "running"
    /\ lastOp.op \in EraseOps
    /\ Len(FvmIterate(fvm)) = 3
    /\ \E i, j \in 1 .. 3 : FvmIterate(fvm)[i] # FvmIterate(fvm)[j]
    /\ fvm.dense_to_sparse[0] > fvm.dense_to_sparse[1]

\* The handle returned by the (i+1)-th insert since construction or the
\* last clear.
InsertedHandle(log, i) == log.returned[Len(log.returned) - log.inserts + i + 1]

\* With no erase since construction or the last clear, position i of the
\* dense vector holds the value of the (i+1)-th insert and the handle of
\* that insert maps to i.
InInsertionOrder(dense_vector, sparse_to_dense, log) ==
    log.erased = 0 =>
       /\ Len(dense_vector) = log.inserts
       /\ \A i \in 0 .. log.inserts - 1 :
             LET h == InsertedHandle(log, i)
             IN  /\ h \in DOMAIN log.live
                 /\ h \in DOMAIN sparse_to_dense
                 /\ sparse_to_dense[h] = i
                 /\ vector_in_range(dense_vector, i)
                 /\ dense_vector[i + 1] = log.live[h]

\* C15: insertion order until erasure.  If no erase has happened since
\* construction or the last clear, then after k inserts the element at
\* begin()+i is the value of the (i+1)-th insert and its handle maps to
\* position i, for all i < k.
C15_InsertionOrder ==
    /\ OnFvm => InInsertionOrder(fvm.dense_vector, fvm.sparse_to_dense, fvmLog)
    /\ OnLfvm => InInsertionOrder(lfvm.dense_vector, lfvm.sparse_to_dense, lfvmLog)

\* Three inserts of not all equal values after a clear, no erase since.
C15_Witness ==
    /\ status = "running" /\ OnFvm
    /\ lastOp.op = "push_back"
    /\ fvmLog.erased = 0 /\ fvmLog.inserts = 3
    /\ Len(fvmLog.returned) = 4
    /\ fvm.dense_vector[1] # fvm.dense_vector[3]
    /\ fvm.sparse_to_dense[InsertedHandle(fvmLog, 2)] = 2

\* C16: contract violation is fail-fast.  erase(h) or operator[](h) with a
\* handle that is not in the sparse index (never issued, erased before, or
\* issued before a clear) ends in the assertion failure in both variants,
\* and neither the vector nor an index map has been modified by then.
C16_FailFast ==
    /\ [] /\ OnFvm =>
               \A h \in Handles :
                  ~ FvmContains(fvm, h) =>
                     /\ FvmErase(fvm, h) = Result(fvm, "assert")
                     /\ FvmAt(fvm, h).st = "assert"
          /\ OnLfvm =>
               \A h \in Handles :
                  ~ LfvmContains(lfvm, h) =>
                     /\ \A order \in IterationOrders(lfvm.sparse_to_dense) :
                           LfvmErase(lfvm, h, order) = Result(lfvm, "assert")
                     /\ LfvmAt(lfvm, h).st = "assert"
    /\ [][ ( /\ lastOp'.op \in {"erase", "at"}
             /\ \E h \in lastOp'.handles : h \notin DOMAIN Driven.sparse_to_dense )
           => /\ status' = "assert"
              /\ fvm' = fvm
              /\ lfvm' = lfvm
         ]_vars

\* The LightFlatValueMap holds elements and the caller erased a handle
\* that was issued and is no longer live: the process stopped in the
\* assertion.
C16_Witness ==
    /\ client = "lfvm" /\ status = "assert"
    /\ lastOp.op = "erase"
    /\ LfvmSize(lfvm) >= 1
    /\ lfvmLog.erased >= 1
    /\ \E i \in 1 .. Len(lfvmLog.returned) :
          /\ lastOp.handles = {lfvmLog.returned[i]}
          /\ ~ LfvmContains(lfvm, lfvmLog.returned[i])

\* What a push_back of value t that returned handle h did to the vector
\* and the sparse index of a container of size n: t is appended at
\* position n, h is a new key that maps to n, and every key the index had
\* keeps its position and its element.
InsertPostAndFrame(dense_vector, sparse_to_dense, dense_vector_after, sparse_to_dense_after, h, t) ==
    LET n == Len(dense_vector)
    IN  /\ Len(dense_vector_after) = n + 1
        /\ dense_vector_after[n + 1] = t
        /\ h \notin DOMAIN sparse_to_dense
        /\ DOMAIN sparse_to_dense_after = DOMAIN sparse_to_dense \cup {h}
        /\ sparse_to_dense_after[h] = n
        /\ \A g \in DOMAIN sparse_to_dense :
              /\ sparse_to_dense_after[g] = sparse_to_dense[g]
              /\ dense_vector_after[sparse_to_dense[g] + 1]
                   = dense_vector[sparse_to_dense[g] + 1]

\* C17: insert postcondition and frame.  push_back/emplace_back on a
\* container of size n appends the value at dense position n, returns a
\* fresh handle h with sparse_to_dense[h] = n (in FlatValueMap also
\* dense_to_sparse[n] = h), increases size() by exactly one, and leaves the
\* position and value of every previously live handle unchanged.
C17_Insert ==
    [][ lastOp'.op = "push_back" =>
          /\ status' = "running"
          /\ OnFvm =>
               LET h == Last(fvmLog'.returned)
               IN  /\ InsertPostAndFrame(fvm.dense_vector, fvm.sparse_to_dense,
                                         fvm'.dense_vector, fvm'.sparse_to_dense,
                                         h, lastOp'.value)
                   /\ FvmSize(fvm') = FvmSize(fvm) + 1
                   /\ \A i \in 1 .. Len(fvmLog.returned) : fvmLog.returned[i] # h
                   /\ fvm'.dense_to_sparse[FvmSize(fvm)] = h
                   /\ \A g \in DOMAIN fvmLog.live :
                         /\ FvmAt(fvm', g) = FvmAt(fvm, g)
                         /\ FvmAt(fvm', g).st = "ok"
          /\ OnLfvm =>
               LET h == Last(lfvmLog'.returned)
               IN  /\ InsertPostAndFrame(lfvm.dense_vector, lfvm.sparse_to_dense,
                                         lfvm'.dense_vector, lfvm'.sparse_to_dense,
                                         h, lastOp'.value)
                   /\ LfvmSize(lfvm') = LfvmSize(lfvm) + 1
                   /\ \A i \in 1 .. Len(lfvmLog.returned) : lfvmLog.returned[i] # h
                   /\ \A g \in DOMAIN lfvmLog.live :
                         /\ LfvmAt(lfvm', g) = LfvmAt(lfvm, g)
                         /\ LfvmAt(lfvm', g).st = "ok"
      ]_vars

\* A push_back onto a LightFlatValueMap that held two elements after an
\* erase: the new handle is at position 2 and the two older handles are
\* still live.
C17_Witness ==
    /\ client = "lfvm" /\ status = "running"
    /\ lastOp.op = "push_back" /\ lastOp.size = 2
    /\ lfvmLog.erased >= 1
    /\ LfvmSize(lfvm) = 3
    /\ lfvm.sparse_to_dense[Last(lfvmLog.returned)] = 2
    /\ lfvm.dense_vector[3] = lastOp.value
    /\ Cardinality(DOMAIN lfvmLog.live) = 3

\* The index invariants of a FlatValueMap against the caller's log: the
\* sparse index has exactly the live handles, the reverse index has
\* exactly the positions 0 .. size()-1 and is the inverse of the sparse
\* index, and operator[] of a live handle returns the inserted value.
FvmIndexInvariants(c, log) ==
    /\ DOMAIN c.sparse_to_dense = DOMAIN log.live
    /\ DOMAIN c.dense_to_sparse = 0 .. FvmSize(c) - 1
    /\ \A h \in DOMAIN c.sparse_to_dense :
          /\ c.sparse_to_dense[h] \in DOMAIN c.dense_to_sparse
          /\ c.dense_to_sparse[c.sparse_to_dense[h]] = h
          /\ FvmAt(c, h) = [st |-> "ok", value |-> log.live[h]]

\* The same for a LightFlatValueMap, which has no reverse index: the
\* sparse index maps the live handles one to one onto 0 .. size()-1.
LfvmIndexInvariants(c, log) ==
    /\ DOMAIN c.sparse_to_dense = DOMAIN log.live
    /\ Cardinality(DOMAIN c.sparse_to_dense) = LfvmSize(c)
    /\ \A i \in 0 .. LfvmSize(c) - 1 :
          \E h \in DOMAIN c.sparse_to_dense : c.sparse_to_dense[h] = i
    /\ \A h \in DOMAIN c.sparse_to_dense :
          LfvmAt(c, h) = [st |-> "ok", value |-> log.live[h]]

\* C18: move construction preserves the container.  After move-
\* constructing B from A in any reachable state (also right after an
\* insert), B has A's former size and every handle that was live in A
\* resolves in B to the same value; every later erase(handle) of a live
\* handle on B, at the last or another position, returns, removes that
\* handle, takes one off size() and keeps the value of every other live
\* handle; and the index invariants hold in every state of B.
C18_MoveConstruction ==
    /\ [] /\ (OnFvm /\ fvmLog.moved) =>
               /\ NoUndefinedBehaviour
               /\ FvmIndexInvariants(fvm, fvmLog)
          /\ (OnLfvm /\ lfvmLog.moved) =>
               /\ NoUndefinedBehaviour
               /\ LfvmIndexInvariants(lfvm, lfvmLog)
    /\ [][ /\ lastOp'.op = "move_construct" =>
               /\ status' = "running"
               /\ OnFvm =>
                    /\ FvmSize(fvm') = FvmSize(fvm)
                    /\ fvmLog'.moved
                    /\ \A h \in DOMAIN fvmLog.live :
                          /\ FvmContains(fvm', h)
                          /\ FvmAt(fvm', h) = FvmAt(fvm, h)
                          /\ FvmAt(fvm', h) = [st |-> "ok", value |-> fvmLog.live[h]]
               /\ OnLfvm =>
                    /\ LfvmSize(lfvm') = LfvmSize(lfvm)
                    /\ lfvmLog'.moved
                    /\ \A h \in DOMAIN lfvmLog.live :
                          /\ LfvmContains(lfvm', h)
                          /\ LfvmAt(lfvm', h) = LfvmAt(lfvm, h)
                          /\ LfvmAt(lfvm', h) = [st |-> "ok", value |-> lfvmLog.live[h]]
           /\ (OnFvm /\ fvmLog.moved /\ lastOp'.op = "erase"
                 /\ lastOp'.handles \subseteq DOMAIN fvmLog.live) =>
               /\ status' = "running"
               /\ FvmSize(fvm') = FvmSize(fvm) - 1
               /\ \A h \in lastOp'.handles : ~ FvmContains(fvm', h)
               /\ \A g \in DOMAIN fvmLog.live \ lastOp'.handles :
                     FvmAt(fvm', g) = FvmAt(fvm, g)
           /\ (client = "lfvm" /\ lfvmLog.moved /\ lastOp'.op = "erase"
                 /\ lastOp'.handles \subseteq DOMAIN lfvmLog.live) =>
               /\ status' = "running"
               /\ LfvmSize(lfvm') = LfvmSize(lfvm) - 1
               /\ \A h \in lastOp'.handles : ~ LfvmContains(lfvm', h)
               /\ \A g \in DOMAIN lfvmLog.live \ lastOp'.handles :
                     LfvmAt(lfvm', g) = LfvmAt(lfvm, g)
         ]_vars

\* Three inserts, a move construction, and the first erase since: it took
\* out an element that was not the last one of the move-constructed
\* FlatValueMap, and the two other handles are live.
C18_Witness ==
    /\ client = "fvm" /\ status = "running"
    /\ fvmLog.moved
    /\ lastOp.op = "erase" /\ lastOp.size = 3
    /\ lastOp.index >= 0 /\ lastOp.index < 2
    /\ Len(fvmLog.returned) = 3 /\ fvmLog.inserts = 3 /\ fvmLog.erased = 1
    /\ FvmSize(fvm) = 2
    /\ Cardinality(DOMAIN fvmLog.live) = 2

\* C19: reverse traversal of FlatValueMap.  In every reachable state,
\* traversing from crbegin() to crend() visits every live element exactly
\* once (size() elements), in the reverse of the current dense order.
C19_ReverseTraversal ==
    OnFvm =>
      LET visited == FvmReverseIterate(fvm)
      IN  /\ Len(visited) = FvmSize(fvm)
          /\ \A i \in 1 .. Len(visited) :
                visited[i] = fvm.dense_vector[FvmSize(fvm) - i + 1]

\* A sequence of (handle, position) pairs has exactly one pair for each
\* live handle of a log and nothing else, the pair of a handle gives the
\* position of its element, and the positions are pairwise distinct and
\* are exactly 0 .. size()-1.
OnePairPerLiveHandle(pairs, dense_vector, log) ==
    /\ Len(pairs) = Cardinality(DOMAIN log.live)
    /\ \A i \in 1 .. Len(pairs) :
          /\ pairs[i].first \in DOMAIN log.live
          /\ vector_in_range(dense_vector, pairs[i].second)
          /\ dense_vector[pairs[i].second + 1] = log.live[pairs[i].first]
    /\ \A h \in DOMAIN log.live :
          Cardinality({ i \in 1 .. Len(pairs) : pairs[i].first = h }) = 1
    /\ \A i, j \in 1 .. Len(pairs) :
          i # j => pairs[i].second # pairs[j].second
    /\ { pairs[i].second : i \in 1 .. Len(pairs) } = 0 .. Len(dense_vector) - 1

\* C20: handle-iteration.  In every reachable state the sequence from
\* handles_begin() to handles_end() contains exactly one (handle, position)
\* pair per live handle and nothing else, and the positions in it are
\* pairwise distinct and form exactly the set {0 .. size()-1}; this in
\* whatever order the unordered_map is walked.
C20_HandleIteration ==
    /\ OnFvm =>
         \A order \in IterationOrders(fvm.sparse_to_dense) :
            OnePairPerLiveHandle(HandlesIterate(fvm, order), fvm.dense_vector, fvmLog)
    /\ OnLfvm =>
         \A order \in IterationOrders(lfvm.sparse_to_dense) :
            OnePairPerLiveHandle(HandlesIterate(lfvm, order), lfvm.dense_vector, lfvmLog)

\* A LightFlatValueMap after an erase that moved an element: three pairs
\* are walked, and the handle issued last is not at the last position.
C20_Witness ==
    /\ client = "lfvm" /\ status = "running"
    /\ lastOp.op = "erase" /\ lastOp.size = 4
    /\ lastOp.index >= 0 /\ lastOp.index < 3
    /\ \E order \in IterationOrders(lfvm.sparse_to_dense) :
          /\ Len(HandlesIterate(lfvm, order)) = 3
          /\ HandlesIterate(lfvm, order)[1].first = Last(lfvmLog.returned)
          /\ HandlesIterate(lfvm, order)[1].second = lastOp.index

\* C21: cached back-element flag protocol (FlatValueMap).
\* back_element_cached_iterator_valid is true immediately after every
\* push_back/emplace_back and false immediately after every erase that
\* removed an element (by handle, by position, or by a non-empty range).
C21_CacheFlagProtocol ==
    [][ OnFvm =>
          /\ (lastOp'.op = "push_back" /\ status' = "running") =>
                fvm'.back_element_cached_iterator_valid
          /\ ( /\ lastOp'.op \in EraseOps
               /\ status' = "running"
               /\ FvmSize(fvm') < FvmSize(fvm) ) =>
                ~ fvm'.back_element_cached_iterator_valid
      ]_vars

\* The last element was erased by handle while two stayed, after the
\* three inserts had left the flag true: the flag is false.
C21_Witness ==
    /\ client = "fvm" /\ status = "running"
    /\ lastOp.op = "erase" /\ lastOp.size = 3 /\ lastOp.index = 2
    /\ fvmLog.inserts = 3 /\ fvmLog.erased = 1
    /\ FvmSize(fvm) = 2
    /\ ~ fvm.back_element_cached_iterator_valid

\* C22: handle comparison.  For any two handles a and b of the same
\* handle type, a == b iff a.id == b.id, a != b iff not (a == b), and <,
\* <=, >, >= agree with the unsigned integer comparison of the ids, so
\* exactly one of a < b, a == b, a > b holds.
C22_HandleComparison ==
    lastOp.op = "compare" =>
       LET a == lastOp.lhs
           b == lastOp.rhs
           r == lastOp.result
       IN  /\ r.eq <=> (a.id = b.id)
           /\ r.ne <=> ~ r.eq
           /\ r.lt <=> (a.id < b.id)
           /\ r.le <=> (a.id <= b.id)
           /\ r.gt <=> (a.id > b.id)
           /\ r.ge <=> (a.id >= b.id)
           /\ Cardinality({ x \in {"lt", "eq", "gt"} : r[x] }) = 1

\* Two LfvmHandles with different ids were compared, the greater one on
\* the left.
C22_Witness ==
    /\ client = "LfvmHandle"
    /\ lastOp.op = "compare"
    /\ lastOp.lhs.id = 3 /\ lastOp.rhs.id = 2
    /\ lastOp.result.gt /\ lastOp.result.ne /\ ~ lastOp.result.le

\* What erase(h) of the handle at position p of a container of size n
\* left alone: every other key keeps its position, except the key that
\* was at position n-1, which is at p; at most one key changed position;
\* and every position but p holds the element it held.
EraseFrame(dense_vector, sparse_to_dense, dense_vector_after, sparse_to_dense_after, h, p) ==
    LET n == Len(dense_vector)
        others == DOMAIN sparse_to_dense \ {h}
    IN  /\ DOMAIN sparse_to_dense_after = others
        /\ \A g \in others :
              sparse_to_dense_after[g] =
                  IF sparse_to_dense[g] = n - 1 THEN p ELSE sparse_to_dense[g]
        /\ Cardinality({ g \in others :
                           sparse_to_dense_after[g] # sparse_to_dense[g] }) <= 1
        /\ p = n - 1 =>
              \A g \in others : sparse_to_dense_after[g] = sparse_to_dense[g]
        /\ Len(dense_vector_after) = n - 1
        /\ \A i \in 0 .. n - 2 :
              i # p => dense_vector_after[i + 1] = dense_vector[i + 1]

\* C23: frame of erase(handle).  Erasing a live handle at position p
\* changes the dense position of at most one other live handle, namely the
\* one that was at position size()-1 (it moves to p); when p is the last
\* position no other handle's position changes; the relative order of all
\* other elements in the dense vector is unchanged.
C23_EraseFrame ==
    [][ (lastOp'.op = "erase" /\ lastOp'.index >= 0) =>
          /\ status' = "running"
          /\ OnFvm =>
               \A h \in lastOp'.handles :
                  EraseFrame(fvm.dense_vector, fvm.sparse_to_dense,
                             fvm'.dense_vector, fvm'.sparse_to_dense,
                             h, lastOp'.index)
          /\ OnLfvm =>
               \A h \in lastOp'.handles :
                  EraseFrame(lfvm.dense_vector, lfvm.sparse_to_dense,
                             lfvm'.dense_vector, lfvm'.sparse_to_dense,
                             h, lastOp'.index)
      ]_vars

\* The first of four elements of a FlatValueMap was erased by handle: the
\* handle issued last is at position 0 and the two others are where they
\* were, at positions 1 and 2.
C23_Witness ==
    /\ client = "fvm" /\ status = "running"
    /\ lastOp.op = "erase" /\ lastOp.size = 4 /\ lastOp.index = 0
    /\ fvmLog.inserts = 4 /\ fvmLog.erased = 1
    /\ fvm.sparse_to_dense[InsertedHandle(fvmLog, 3)] = 0
    /\ fvm.sparse_to_dense[InsertedHandle(fvmLog, 1)] = 1
    /\ fvm.sparse_to_dense[InsertedHandle(fvmLog, 2)] = 2

\* Every handle of a sequence is a key of the sparse index at the moment
\* the second loop of erase(first, last) calls erase with it, and that
\* call returns.
RECURSIVE PresentWhenErased(_, _)
PresentWhenErased(c, handles) ==
    \/ handles = << >>
    \/ /\ FvmContains(c, Head(handles))
       /\ FvmErase(c, Head(handles)).st = "ok"
       /\ PresentWhenErased(FvmErase(c, Head(handles)).c, Tail(handles))

\* C24: range erase never erases a stale handle.  During erase(first,last)
\* on FlatValueMap the snapshot reads a reverse index entry for every
\* position in [first,last), the snapshotted handles are pairwise distinct,
\* and each of them is still in the sparse index when its own erase is
\* called, whatever swaps the earlier erases of the call made.
C24_RangeEraseNoStaleHandle ==
    [][ lastOp'.op = "erase_range" =>
          LET offset == lastOp'.index
              count == lastOp'.count
              snapshot == FvmSnapshot(fvm, offset, count)
          IN  /\ snapshot.st = "ok"
              /\ Len(snapshot.handles) = count
              /\ \A i \in 1 .. count :
                    /\ FvmContains(fvm, snapshot.handles[i])
                    /\ fvm.sparse_to_dense[snapshot.handles[i]] = offset + i - 1
              /\ \A i, j \in 1 .. count :
                    i # j => snapshot.handles[i] # snapshot.handles[j]
              /\ PresentWhenErased(fvm, snapshot.handles)
              /\ status' = "running"
      ]_vars

\* A range of two adjacent positions that ends before the last element
\* was erased from four elements: the second erase of the call came
\* after the swap of the first.
C24_Witness ==
    /\ client = "fvm" /\ status = "running"
    /\ lastOp.op = "erase_range"
    /\ lastOp.size = 4 /\ lastOp.count = 2 /\ lastOp.index = 1
    /\ fvmLog.erased = 2
    /\ FvmSize(fvm) = 2
    /\ \A h \in lastOp.handles : ~ FvmContains(fvm, h)

\* erase(handleToDelete) as it runs when the flag is false: the two
\* iterators of the back element are looked up in the maps.
FvmEraseByLookup(c, handleToDelete) ==
    FvmErase([c EXCEPT !.back_element_cached_iterator_valid = FALSE], handleToDelete)

\* C25: cached path equals lookup path.  Whenever FlatValueMap::erase(h)
\* is entered with a live h and back_element_cached_iterator_valid true,
\* the cached reverse index entry is the entry with key size()-1 and the
\* cached sparse index entry is the entry of the handle at position
\* size()-1, so the state after erase is the state the lookup branch
\* would produce.
C25_CachedPathEqualsLookup ==
    [][ ( /\ OnFvm
          /\ lastOp'.op = "erase"
          /\ lastOp'.index >= 0
          /\ fvm.back_element_cached_iterator_valid ) =>
          /\ fvm.back_element_dense_to_sparse_iterator
               = MapFind(fvm.dense_to_sparse, FvmSize(fvm) - 1)
          /\ fvm.back_element_dense_to_sparse_iterator # EndIt
          /\ fvm.back_element_sparse_to_dense_iterator
               = MapFind(fvm.sparse_to_dense, fvm.dense_to_sparse[FvmSize(fvm) - 1])
          /\ fvm.back_element_sparse_to_dense_iterator # EndIt
          /\ fvm.sparse_to_dense[fvm.back_element_sparse_to_dense_iterator]
               = FvmSize(fvm) - 1
          /\ \A h \in lastOp'.handles :
                /\ FvmEraseByLookup(fvm, h).st = "ok"
                /\ fvm' = FvmEraseByLookup(fvm, h).c
          /\ status' = "running"
      ]_vars

\* After a clear, three inserts and nothing else, the caller erased the
\* first element by handle: erase was entered with the flag true and took
\* the swap branch with the cached iterators.
C25_Witness ==
    /\ client = "fvm" /\ status = "running"
    /\ ~ fvmLog.moved
    /\ lastOp.op = "erase" /\ lastOp.size = 3 /\ lastOp.index = 0
    /\ Len(fvmLog.returned) = 4
    /\ fvmLog.inserts = 3 /\ fvmLog.erased = 1
    /\ fvm.sparse_to_dense[Last(fvmLog.returned)] = 0

\* C26: cache validity invariant (FlatValueMap).  In every reachable
\* state, including states reached through clear(), if
\* back_element_cached_iterator_valid is true then the container is
\* non-empty and the cached sparse and reverse index entries are entries
\* currently present in the maps for dense position size()-1.
C26_CacheValidity ==
    (OnFvm /\ fvm.back_element_cached_iterator_valid) =>
       /\ ~ FvmIsEmpty(fvm)
       /\ fvm.back_element_dense_to_sparse_iterator \in DOMAIN fvm.dense_to_sparse
       /\ fvm.back_element_dense_to_sparse_iterator = FvmSize(fvm) - 1
       /\ fvm.back_element_sparse_to_dense_iterator \in DOMAIN fvm.sparse_to_dense
       /\ fvm.sparse_to_dense[fvm.back_element_sparse_to_dense_iterator]
            = FvmSize(fvm) - 1

\* C27: copy independence (FlatValueMap).  After FlatValueMap fvm2 = fvm in
\* any reachable state of fvm, also right after an insert with the cache
\* valid, every erase(handle) on fvm2 leaves the dense_vector, the
\* sparse_to_dense and the dense_to_sparse of fvm as they were, and leaves
\* the two maps of fvm2 consistent with its dense_vector: the reverse
\* index has exactly the positions 0 .. size()-1 and is the inverse of the
\* sparse index.
C27_CopyIndependence ==
    [][lastOp'.op = "erase_copy" =>
         /\ fvm'.dense_vector = fvm.dense_vector
         /\ fvm'.sparse_to_dense = fvm.sparse_to_dense
         /\ fvm'.dense_to_sparse = fvm.dense_to_sparse
         /\ DOMAIN fvm2'.dense_to_sparse = 0 .. FvmSize(fvm2') - 1
         /\ \A h \in DOMAIN fvm2'.sparse_to_dense :
               /\ fvm2'.sparse_to_dense[h] \in DOMAIN fvm2'.dense_to_sparse
               /\ fvm2'.dense_to_sparse[fvm2'.sparse_to_dense[h]] = h]_vars

\* The ids of the handles the inserts on a container returned.
Returned(log) == { log.returned[i] : i \in 1 .. Len(log.returned) }

\* C28: cross-instance handle uniqueness.  For two default-constructed
\* containers of one instantiation, with push_back, erase and clear calls
\* on the two interleaved in any order, a handle that an insert on one
\* container returned is never contained in the other one: the two draw
\* their ids from the one static internalIdCounter.
C28_CrossInstanceUniqueness ==
    /\ client = "fvm" =>
          /\ \A h \in Returned(fvmLog) : ~ FvmContains(fvm2, h)
          /\ \A h \in Returned(fvm2Log) : ~ FvmContains(fvm, h)
    /\ client = "lfvm" =>
          /\ \A h \in Returned(lfvmLog) : ~ LfvmContains(lfvm2, h)
          /\ \A h \in Returned(lfvm2Log) : ~ LfvmContains(lfvm, h)

\* The two LightFlatValueMaps got handles in turn, one of them was cleared
\* and then inserted into again, and an erase on the other one returned:
\* both contain a handle.
C28_Witness ==
    /\ client = "lfvm" /\ status = "running"
    /\ Len(lfvmLog.returned) >= 2 /\ Len(lfvm2Log.returned) >= 1
    /\ lfvmLog.returned[1] < lfvm2Log.returned[1]
    /\ lfvm2Log.returned[1] < lfvmLog.returned[2]
    /\ lfvmLog.inserts = 1
    /\ lfvm2Log.erased >= 1
    /\ DOMAIN lfvm.sparse_to_dense # {}
    /\ DOMAIN lfvm2.sparse_to_dense # {}

\* C29: uniqueness across counter wraparound.  With the id counter an
\* unsigned integer of IdWidth bits incremented modulo 2^IdWidth, and more
\* than 2^IdWidth inserts made while early handles stay live, a push_back
\* that returns never returns a handle equal to a handle that is live when
\* the call is made, and in every state in which the caller goes on size()
\* is the number of sparse index entries.
C29_UniqueAcrossWraparound ==
    /\ [][ (lastOp'.op = "push_back" /\ status' = "running") =>
             /\ OnFvm => Last(fvmLog'.returned) \notin DOMAIN fvmLog.live
             /\ OnLfvm => Last(lfvmLog'.returned) \notin DOMAIN lfvmLog.live
        ]_vars
    /\ [](status = "running" =>
             /\ OnFvm => FvmSize(fvm) = Cardinality(DOMAIN fvm.sparse_to_dense)
             /\ OnLfvm => LfvmSize(lfvm) = Cardinality(DOMAIN lfvm.sparse_to_dense))

\* C30: unchecked erase on the light variant.  With assertions compiled
\* out, LightFlatValueMap::erase(h) for a handle h that is not in the
\* sparse index returns, and leaves dense_vector and sparse_to_dense as
\* they were: size() is the same and every live handle still resolves to
\* its value.
C30_UncheckedErase ==
    [][ (lastOp'.op = "erase" /\ ~ LfvmContains(lfvm, CHOOSE h \in lastOp'.handles : TRUE)) =>
          /\ status' = "running"
          /\ lfvm'.dense_vector = lfvm.dense_vector
          /\ lfvm'.sparse_to_dense = lfvm.sparse_to_dense
          /\ LfvmSize(lfvm') = LfvmSize(lfvm)
          /\ lfvmLog' = lfvmLog
          /\ \A h \in DOMAIN lfvmLog.live :
                LfvmAt(lfvm', h) = [st |-> "ok", value |-> lfvmLog.live[h]]
      ]_vars

\* An unchecked erase of a handle that had been erased before has
\* returned, and two handles with different values are live.
C30_Witness ==
    /\ client = "lfvm" /\ status = "running"
    /\ lastOp.op = "erase" /\ lastOp.index = -1
    /\ lastOp.handles \subseteq Returned(lfvmLog)
    /\ lfvmLog.erased >= 1
    /\ \E h, g \in DOMAIN lfvmLog.live :
          /\ lfvmLog.live[h] # lfvmLog.live[g]
          /\ LfvmAt(lfvm, h).value = lfvmLog.live[h]
          /\ LfvmAt(lfvm, g).value = lfvmLog.live[g]

\* C31: read-only operations.  operator[] and find on a live handle,
\* contains and find on any handle, and size, empty, front, back, begin,
\* end, handles_begin and handles_end leave dense_vector, sparse_to_dense,
\* dense_to_sparse, the cache flag and the cached iterators, and the id
\* counter as they were: a lookup never inserts an entry into a map.
C31_ReadOnly ==
    [][ (/\ lastOp'.op \in ReadOps
         /\ lastOp'.op = "at" => lastOp'.index >= 0) =>
          /\ fvm' = fvm
          /\ fvmIdCounter' = fvmIdCounter
          /\ lfvm' = lfvm
          /\ lfvmIdCounter' = lfvmIdCounter
      ]_vars

\* find has returned for a handle that was erased before, on a
\* FlatValueMap that holds two elements and whose cache flag is set.
C31_Witness ==
    /\ client = "fvm" /\ status = "running"
    /\ lastOp.op = "find" /\ lastOp.index = -1
    /\ lastOp.handles \subseteq Returned(fvmLog)
    /\ FvmSize(fvm) = 2
    /\ fvm.back_element_cached_iterator_valid
    /\ fvmIdCounter >= 3

\* C32: the linear scan of the LightFlatValueMap always succeeds.  In
\* every reachable state, for every handle of the sparse index whose
\* element is not the last one -- the handles for which erase calls
\* dense_to_sparse(size()-1) -- exactly one sparse index entry has the
\* value size()-1, the scan returns that entry in whatever order it walks
\* the map, so that it never reaches assert(false), and the entry is not
\* the one of the handle being erased.
C32_LinearScanSucceeds ==
    (OnLfvm /\ status = "running") =>
       \A handleToRemove \in DOMAIN lfvm.sparse_to_dense :
          lfvm.sparse_to_dense[handleToRemove] # LfvmSize(lfvm) - 1 =>
             LET last_element == LfvmSize(lfvm) - 1
                 entries == { h \in DOMAIN lfvm.sparse_to_dense :
                                 lfvm.sparse_to_dense[h] = last_element }
             IN  /\ Cardinality(entries) = 1
                 /\ \A order \in IterationOrders(lfvm.sparse_to_dense) :
                       LET it == LfvmDenseToSparse(lfvm, last_element, order)
                       IN  /\ it # EndIt
                           /\ it \in entries
                           /\ it # handleToRemove

\* An erase of a live handle at a position that was not the last one of
\* three or more has returned on the LightFlatValueMap, and a handle at a
\* position that is not the last one is live again.
C32_Witness ==
    /\ client = "lfvm" /\ status = "running"
    /\ lastOp.op = "erase" /\ lastOp.index >= 0
    /\ lastOp.size >= 3 /\ lastOp.index < lastOp.size - 1
    /\ LfvmSize(lfvm) >= 2

\* C33: the range assertions hold.  In every reachable state and for
\* every live handle the position the sparse index gives is below size(),
\* so that the vector_in_range assertions of operator[], find and
\* erase(handle) do not fail; and in the branch of FlatValueMap::erase that
\* does not use the cache, dense_to_sparse.find(size()-1) returns an entry
\* and sparse_to_dense.find of the handle in that entry returns an entry:
\* the erase of every live handle by lookup returns.
C33_RangeAssertionsHold ==
    /\ OnFvm =>
          /\ \A h \in DOMAIN fvmLog.live :
                /\ h \in DOMAIN fvm.sparse_to_dense
                /\ vector_in_range(fvm.dense_vector, fvm.sparse_to_dense[h])
                /\ FvmAt(fvm, h).st = "ok"
                /\ FvmFind(fvm, h).st = "ok"
                /\ FvmErase(fvm, h).st = "ok"
                /\ FvmEraseByLookup(fvm, h).st = "ok"
          /\ ~ FvmIsEmpty(fvm) =>
                LET back_dts_it == MapFind(fvm.dense_to_sparse, FvmSize(fvm) - 1)
                IN  /\ back_dts_it # EndIt
                    /\ MapFind(fvm.sparse_to_dense, fvm.dense_to_sparse[back_dts_it]) # EndIt
    /\ OnLfvm =>
          \A h \in DOMAIN lfvmLog.live :
             /\ h \in DOMAIN lfvm.sparse_to_dense
             /\ vector_in_range(lfvm.dense_vector, lfvm.sparse_to_dense[h])
             /\ LfvmAt(lfvm, h).st = "ok"

\* An erase has returned on the FlatValueMap, so that the cache flag is
\* false, and of the three or more live handles one is not at the last
\* position: its erase takes the branch that looks the back element up.
C33_Witness ==
    /\ client = "fvm" /\ status = "running"
    /\ lastOp.op = "erase"
    /\ ~ fvm.back_element_cached_iterator_valid
    /\ Cardinality(DOMAIN fvmLog.live) >= 3
    /\ \E h \in DOMAIN fvmLog.live :
          /\ fvm.sparse_to_dense[h] # FvmSize(fvm) - 1
          /\ FvmEraseByLookup(fvm, h).st = "ok"

====
